---- MODULE Spec2Model ----
(***************************************************************************)
(* A2A task/agent orchestration subsystem of golfergeek-ai.                *)
(*                                                                         *)
(* The module models                                                       *)
(*   - the in-memory task store (task-store.service.ts),                   *)
(*   - the agent protocol layer (a2a-agent-base.service.ts): the           *)
(*     handleTaskSend / handleTaskGet / handleTaskCancel handlers, cut at  *)
(*     every `await` so that requests interleave as the event loop lets    *)
(*     them,                                                               *)
(*   - the JSON-RPC controller (a2a-controller.base.ts): request shape     *)
(*     validation, dispatch and error mapping.                             *)
(*                                                                         *)
(* JavaScript values are tagged records; records of different shapes are   *)
(* different values.  Arrays that the code mutates in place (the           *)
(* artifacts array of a task) live in a heap and are held by reference.    *)
(***************************************************************************)
EXTENDS Integers, Sequences, FiniteSets, TLC

(***************************************************************************)
(* Bounds of the model.                                                    *)
(***************************************************************************)
\* latest value of the millisecond clock
MaxClock == 1
\* longest history the store operations are driven to
MaxHistory == 2
\* number of tasks ever created (each allocates one artifacts array)
MaxArrays == 2
\* longest artifacts array
MaxArtifacts == 2
\* number of JSON-RPC requests an agent handles at the same time
MaxInFlight == 2
\* number of tasks/send requests dispatched in a run
MaxSends == 2
\* number of invocations of discoverAgentsWithRetry(0) in a run
MaxChains == 1
\* number of tasks/send requests the orchestrator is sent in a run
MaxQueries == 1
\* number of JSON-RPC requests A2AClientService is called to post in a run
MaxCalls == 2

(***************************************************************************)
(* JavaScript values.                                                      *)
(***************************************************************************)
Undefined == [undefined |-> TRUE]
Null == [null |-> TRUE]

\* a value that is neither undefined nor null (objects are always truthy)
IsNullish(v) == v = Undefined \/ v = Null

(***************************************************************************)
(* Protocol types (a2a.types.ts).                                          *)
(***************************************************************************)
TaskState ==
  {"unknown", "submitted", "working", "completed", "failed", "canceled",
   "input_required"}

TextPart(text) == [type |-> "text", text |-> text]

TextMessage(role, text) == [role |-> role, parts |-> <<TextPart(text)>>]

Artifact(name, text) == [name |-> name, parts |-> <<TextPart(text)>>]

\* task ids, messages, session ids, metadata and artifacts the operations
\* are driven with
TaskIds == {"t1", "t2"}
\* the ids the store is called with when it is driven directly
StoreTaskIds == {"t1"}
Q1 == TextMessage("user", "q1")
Q2 == TextMessage("user", "q2")
\* the (message, sessionId, metadata) triples createOrGetTask is driven with
CreateInputs ==
  {<<Undefined, Undefined, Undefined>>,
   <<Q1, [session |-> "s1"], Undefined>>,
   <<Q2, Undefined, [meta |-> "m1"]>>}
Artifacts == {Artifact("agent_selection", "x")}
\* the states updateTaskStatus is driven with
StoreStates == {"working", "completed", "canceled"}
ArrayRefs == 1..MaxArrays
Slots == 1..MaxInFlight
Chains == 1..MaxChains

VARIABLES
  tasks,      \* TaskStoreService.tasks: task id -> TaskAndHistory | Undefined
  arrays,     \* heap of artifacts arrays: reference -> sequence of artifacts
  nextRef,    \* next free reference of the heap
  now,        \* the clock read by new Date()
  ret,        \* the last call made on the store and what it returned
  reqs,       \* the JSON-RPC requests being handled: slot -> handler state
  reply,      \* the last request answered, with its response
  sent,       \* number of tasks/send requests dispatched so far
  cancelAcked, \* ids whose cancel was answered canceled:true while a
               \* tasks/send on the id was inside processMessage
  agents,     \* AgentRegistryService.agents: the cards in insertion order
  chains,     \* the invocations of discoverAgentsWithRetry and their retries
  pm,         \* processMessage of the orchestrator: slot -> its position
  fallback,   \* the timer of OrchestratorService.onModuleInit
  client      \* A2AClientService: the uuids drawn and the requests posted

storeVars == <<tasks, arrays, nextRef>>
agentVars == <<reqs, reply, sent, cancelAcked>>
orchVars == <<agents, chains, pm, fallback, client>>
vars ==
  <<tasks, arrays, nextRef, now, ret, reqs, reply, sent, cancelAcked, agents,
    chains, pm, fallback, client>>

(***************************************************************************)
(* TaskStoreService (task-store.service.ts).                               *)
(* Every operation is a function of the store, the heap and the clock; it  *)
(* yields the new store, the new heap and the returned value.              *)
(***************************************************************************)
Outcome(store, heap, result) ==
  [tasks |-> store, arrays |-> heap, result |-> result]

\* message || null, sessionId || null, metadata || null
OrNull(v) == IF IsNullish(v) THEN Null ELSE v

\* createOrGetTask without the has() check of line 37: an existing task is
\* built anew, keeping only its artifacts array
createOrGetTask_overwrite(store, heap, ref, clock, taskId, message, sessionId, metadata) ==
  LET history == IF IsNullish(message) THEN <<>> ELSE <<message>>
      keep == IF store[taskId] # Undefined
              THEN store[taskId].task.artifacts ELSE ref
      task == [id |-> taskId,
               sessionId |-> OrNull(sessionId),
               status |-> [state |-> "submitted",
                           timestamp |-> clock,
                           message |-> OrNull(message)],
               history |-> history,
               artifacts |-> keep,
               metadata |-> OrNull(metadata)]
      taskData == [task |-> task, history |-> history]
  IN Outcome([store EXCEPT ![taskId] = taskData],
             IF store[taskId] # Undefined THEN heap
             ELSE [heap EXCEPT ![ref] = <<>>],
             taskData)

createOrGetTask(store, heap, ref, clock, taskId, message, sessionId, metadata) ==
  IF store[taskId] # Undefined
  THEN Outcome(store, heap, store[taskId])
  ELSE LET history == IF IsNullish(message) THEN <<>> ELSE <<message>>
           task == [id |-> taskId,
                    sessionId |-> OrNull(sessionId),
                    status |-> [state |-> "submitted",
                                timestamp |-> clock,
                                message |-> OrNull(message)],
                    history |-> history,
                    artifacts |-> ref,
                    metadata |-> OrNull(metadata)]
           taskData == [task |-> task, history |-> history]
       IN Outcome([store EXCEPT ![taskId] = taskData],
                  [heap EXCEPT ![ref] = <<>>],
                  taskData)

\* Map.get: undefined for a key the map does not hold
MapGet(store, key) == IF key \in DOMAIN store THEN store[key] ELSE Undefined

getTask(store, taskId) ==
  IF MapGet(store, taskId) = Undefined THEN Null ELSE store[taskId]

\* updateTaskStatus that starts the history afresh instead of copying it
updateTaskStatusResume_nocopy(store, heap, clock, taskId, taskData, state, message) ==
  IF taskData = Null
  THEN Outcome(store, heap, Null)
  ELSE LET status == [state |-> state,
                      timestamp |-> clock,
                      message |-> IF IsNullish(message)
                                  THEN taskData.task.status.message
                                  ELSE message]
           history == IF IsNullish(message) THEN <<>> ELSE <<message>>
           task == [taskData.task EXCEPT
                      !.status = status,
                      !.history = IF IsNullish(message)
                                  THEN taskData.task.history
                                  ELSE history]
           updatedTaskData == [task |-> task, history |-> history]
       IN Outcome([store EXCEPT ![taskId] = updatedTaskData], heap,
                  updatedTaskData)

\* updateTaskStatus that sets the status message but forgets the push
updateTaskStatusResume_nopush(store, heap, clock, taskId, taskData, state, message) ==
  IF taskData = Null
  THEN Outcome(store, heap, Null)
  ELSE LET status == [state |-> state,
                      timestamp |-> clock,
                      message |-> IF IsNullish(message)
                                  THEN taskData.task.status.message
                                  ELSE message]
           updatedTaskData ==
             [task |-> [taskData.task EXCEPT !.status = status],
              history |-> taskData.history]
       IN Outcome([store EXCEPT ![taskId] = updatedTaskData], heap,
                  updatedTaskData)

\* updateTaskStatus without `task.history = history`: the message is pushed
\* to the entry's history alone
updateTaskStatusResume_entryonly(store, heap, clock, taskId, taskData, state, message) ==
  IF taskData = Null
  THEN Outcome(store, heap, Null)
  ELSE LET status == [state |-> state,
                      timestamp |-> clock,
                      message |-> IF IsNullish(message)
                                  THEN taskData.task.status.message
                                  ELSE message]
           history == IF IsNullish(message) THEN taskData.history
                      ELSE Append(taskData.history, message)
           updatedTaskData ==
             [task |-> [taskData.task EXCEPT !.status = status],
              history |-> history]
       IN Outcome([store EXCEPT ![taskId] = updatedTaskData], heap,
                  updatedTaskData)

\* updateTaskStatus that appends to the history the store holds at the time
\* of the write, not to the one it has read
updateTaskStatusResume_reread(store, heap, clock, taskId, taskData, state, message) ==
  IF taskData = Null
  THEN Outcome(store, heap, Null)
  ELSE LET copied == IF store[taskId] = Undefined THEN taskData.history
                     ELSE store[taskId].history
           status == [state |-> state,
                      timestamp |-> clock,
                      message |-> IF IsNullish(message)
                                  THEN taskData.task.status.message
                                  ELSE message]
           history == IF IsNullish(message) THEN copied
                      ELSE Append(copied, message)
           task == [taskData.task EXCEPT
                      !.status = status,
                      !.history = IF IsNullish(message)
                                  THEN taskData.task.history
                                  ELSE history]
           updatedTaskData == [task |-> task, history |-> history]
       IN Outcome([store EXCEPT ![taskId] = updatedTaskData], heap,
                  updatedTaskData)

\* updateTaskStatus after `await this.getTask(taskId)`: taskData is what
\* getTask returned before the await, store is the map as it is now
updateTaskStatusResume(store, heap, clock, taskId, taskData, state, message) ==
  IF taskData = Null
  THEN Outcome(store, heap, Null)
  ELSE LET copied == taskData.history
           status == [state |-> state,
                      timestamp |-> clock,
                      message |-> IF IsNullish(message)
                                  THEN taskData.task.status.message
                                  ELSE message]
           history == IF IsNullish(message) THEN copied
                      ELSE Append(copied, message)
           task == [taskData.task EXCEPT
                      !.status = status,
                      !.history = IF IsNullish(message)
                                  THEN taskData.task.history
                                  ELSE history]
           updatedTaskData == [task |-> task, history |-> history]
       IN Outcome([store EXCEPT ![taskId] = updatedTaskData], heap,
                  updatedTaskData)

\* updateTaskStatus with nothing running between its read and its write
updateTaskStatus(store, heap, clock, taskId, state, message) ==
  updateTaskStatusResume(store, heap, clock, taskId,
                         getTask(store, taskId), state, message)

\* addTaskArtifact after `await this.getTask(taskId)`; the spread copies the
\* task but not its artifacts array, which push() changes in place
addTaskArtifactResume(store, heap, taskId, taskData, artifact) ==
  IF taskData = Null
  THEN Outcome(store, heap, Null)
  ELSE LET task == taskData.task
           updatedTaskData == [taskData EXCEPT !.task = task]
       IN Outcome([store EXCEPT ![taskId] = updatedTaskData],
                  [heap EXCEPT ![task.artifacts] = Append(@, artifact)],
                  updatedTaskData)

addTaskArtifact(store, heap, taskId, artifact) ==
  addTaskArtifactResume(store, heap, taskId, getTask(store, taskId), artifact)

\* deleteTask that reports a deletion whether or not the id was stored
deleteTask_always(store, heap, taskId) ==
  Outcome([store EXCEPT ![taskId] = Undefined], heap, TRUE)

deleteTask(store, heap, taskId) ==
  IF store[taskId] = Undefined
  THEN Outcome(store, heap, FALSE)
  ELSE Outcome([store EXCEPT ![taskId] = Undefined], heap, TRUE)

listTaskIds(store) == {t \in TaskIds : store[t] # Undefined}

(***************************************************************************)
(* Initial state: an empty store, an empty heap.                           *)
(***************************************************************************)
NoCall == [op |-> "none"]
Idle == [pc |-> "idle"]
NoReply == [n |-> 0]
NoChain == [pc |-> "none"]
NotProcessing == [pc |-> "none"]
NoClient == [uuids |-> 0, posted |-> <<>>]

Init ==
  /\ tasks = [t \in TaskIds |-> Undefined]
  /\ arrays = [r \in ArrayRefs |-> <<>>]
  /\ nextRef = 1
  /\ now = 0
  /\ ret = NoCall
  /\ reqs = [r \in Slots |-> Idle]
  /\ reply = NoReply
  /\ sent = 0
  /\ cancelAcked = {}
  /\ agents = <<>>
  /\ chains = [c \in Chains |-> NoChain]
  /\ pm = [r \in Slots |-> NotProcessing]
  /\ fallback = "pending"
  /\ client = NoClient

(***************************************************************************)
(* The store driven directly, one call finishing before the next starts.   *)
(***************************************************************************)
\* what a call on the store returned; a returned boolean b is recorded as
\* [bool |-> b] and a returned list of ids as [ids |-> the set of them]
Returned(op, taskId, args, result) ==
  [op |-> op, taskId |-> taskId, result |-> result]

Tick ==
  /\ now < MaxClock
  /\ now' = now + 1
  /\ UNCHANGED <<tasks, arrays, nextRef, ret, agentVars, orchVars>>

CallCreateOrGetTask(taskId, message, sessionId, metadata) ==
  LET out == createOrGetTask(tasks, arrays, nextRef, now, taskId, message,
                             sessionId, metadata)
  IN /\ tasks[taskId] = Undefined => nextRef <= MaxArrays
     /\ tasks' = out.tasks
     /\ arrays' = out.arrays
     /\ nextRef' = IF tasks[taskId] = Undefined THEN nextRef + 1 ELSE nextRef
     /\ ret' = Returned("createOrGetTask", taskId,
                        <<message, sessionId, metadata>>, out.result)
     /\ UNCHANGED <<now, agentVars, orchVars>>

CallGetTask(taskId) ==
  /\ ret' = Returned("getTask", taskId, <<>>, getTask(tasks, taskId))
  /\ UNCHANGED <<tasks, arrays, nextRef, now, agentVars, orchVars>>

CallUpdateTaskStatus(taskId, state, message) ==
  LET out == updateTaskStatus(tasks, arrays, now, taskId, state, message)
  IN /\ (tasks[taskId] # Undefined /\ ~IsNullish(message))
          => Len(tasks[taskId].history) < MaxHistory
     /\ tasks' = out.tasks
     /\ arrays' = out.arrays
     /\ ret' = Returned("updateTaskStatus", taskId, <<state, message>>,
                        out.result)
     /\ UNCHANGED <<nextRef, now, agentVars, orchVars>>

CallAddTaskArtifact(taskId, artifact) ==
  LET out == addTaskArtifact(tasks, arrays, taskId, artifact)
  IN /\ tasks[taskId] # Undefined
          => Len(arrays[tasks[taskId].task.artifacts]) < MaxArtifacts
     /\ tasks' = out.tasks
     /\ arrays' = out.arrays
     /\ ret' = Returned("addTaskArtifact", taskId, <<artifact>>, out.result)
     /\ UNCHANGED <<nextRef, now, agentVars, orchVars>>

CallDeleteTask(taskId) ==
  LET out == deleteTask(tasks, arrays, taskId)
  IN /\ tasks' = out.tasks
     /\ arrays' = out.arrays
     /\ ret' = Returned("deleteTask", taskId, <<>>, [bool |-> out.result])
     /\ UNCHANGED <<nextRef, now, agentVars, orchVars>>

CallListTaskIds ==
  /\ ret' = Returned("listTaskIds", "", <<>>, [ids |-> listTaskIds(tasks)])
  /\ UNCHANGED <<tasks, arrays, nextRef, now, agentVars, orchVars>>

NextStore ==
  \/ Tick
  \/ \E t \in StoreTaskIds, c \in CreateInputs :
       CallCreateOrGetTask(t, c[1], c[2], c[3])
  \/ \E t \in StoreTaskIds : CallGetTask(t)
  \/ \E t \in StoreTaskIds, st \in StoreStates, m \in {Q1, Q2, Undefined} :
       CallUpdateTaskStatus(t, st, m)
  \/ \E t \in StoreTaskIds, a \in Artifacts : CallAddTaskArtifact(t, a)
  \/ \E t \in StoreTaskIds : CallDeleteTask(t)
  \/ CallListTaskIds

SpecStore == Init /\ [][NextStore]_vars

(***************************************************************************)
(* JavaScript values of varying type, as they arrive in a request body.    *)
(***************************************************************************)
Str(s) == [t |-> "string", s |-> s]
Num(n) == [t |-> "number", n |-> n]
Arr(items) == [t |-> "array", items |-> items]

TypeOf(v) ==
  IF v = Undefined THEN "undefined"
  ELSE IF v = Null THEN "object"
  ELSE IF "t" \in DOMAIN v THEN (IF v.t = "array" THEN "object" ELSE v.t)
  ELSE "object"

IsArray(v) == ~IsNullish(v) /\ "t" \in DOMAIN v /\ v.t = "array"

\* the truthiness test of `a && b`, `!a`
Truthy(v) ==
  IF IsNullish(v) THEN FALSE
  ELSE IF TypeOf(v) = "string" THEN v.s # ""
  ELSE IF TypeOf(v) = "number" THEN v.n # 0
  ELSE TRUE

\* the decimal digits of a natural number and of an integer
Digit(d) == SubSeq("0123456789", d + 1, d + 1)

RECURSIVE NatText(_)
NatText(n) == IF n < 10 THEN Digit(n) ELSE NatText(n \div 10) \o Digit(n % 10)

NumberText(n) == IF n < 0 THEN "-" \o NatText(-n) ELSE NatText(n)

\* String(v) and `${v}`
StringOf(v) ==
  IF v = Undefined THEN "undefined"
  ELSE IF v = Null THEN "null"
  ELSE IF TypeOf(v) = "string" THEN v.s
  ELSE IF TypeOf(v) = "number" THEN NumberText(v.n)
  ELSE "[object Object]"

\* the key a value is in Map.get / Map.set: a string is its own key, and no
\* other value equals a string key
MapKey(v) == IF TypeOf(v) = "string" THEN v.s ELSE "#" \o StringOf(v)

\* a message of a request body as the Message the handlers work with
PlainMessage(m) == [role |-> m.role.s, parts |-> m.parts.items]

(***************************************************************************)
(* ErrorCode (a2a.types.ts).                                               *)
(***************************************************************************)
ParseError == -32700
InvalidRequest == -32600
MethodNotFound == -32601
InvalidParams == -32602
InternalError == -32603
TaskNotFound == 404
TaskCanceled == 499

(***************************************************************************)
(* A2AAgentBaseService (a2a-agent-base.service.ts).                        *)
(***************************************************************************)
\* values a handler can throw: an Error with a message, or the plain
\* JSONRPCError object built by createError
Error(message) == [thrown |-> "Error", message |-> message]
createError(code, message) ==
  [thrown |-> "object", code |-> code, message |-> message]

\* error instanceof Error ? error.message : String(error)
ErrorText(error) ==
  IF error.thrown = "Error" THEN error.message ELSE "[object Object]"

createTextPart(text) == TextPart(text)

ProcessingMessage ==
  [role |-> "agent", parts |-> <<createTextPart("Processing your request...")>>]

\* updateTaskStatusToWorking that passes no message
updateTaskStatusToWorking_silent(store, heap, clock, taskId, taskData) ==
  updateTaskStatusResume(store, heap, clock, taskId, taskData, "working",
                         Undefined)

\* updateTaskStatusToWorking, from the write of updateTaskStatus on
updateTaskStatusToWorking(store, heap, clock, taskId, taskData) ==
  updateTaskStatusResume(store, heap, clock, taskId, taskData, "working",
                         ProcessingMessage)

\* the failure message without the error text
FailedMessage_notext(error) ==
  [role |-> "agent", parts |-> <<createTextPart("Task failed")>>]

\* failedMessage of updateTaskStatusToFailed
FailedMessage(error) ==
  [role |-> "agent",
   parts |-> <<createTextPart("Task failed: " \o ErrorText(error))>>]

\* updateTaskStatusToFailed, from the write of updateTaskStatus on
updateTaskStatusToFailed(store, heap, clock, taskId, taskData, error) ==
  updateTaskStatusResume(store, heap, clock, taskId, taskData, "failed",
                         FailedMessage(error))

\* finalStates without CANCELED
finalStates_nocanceled == {"completed", "failed"}

\* finalStates of handleTaskCancel
finalStates == {"completed", "failed", "canceled"}

(***************************************************************************)
(* A2AControllerBase (a2a-controller.base.ts): validation and responses.   *)
(***************************************************************************)
\* value.field of an object: undefined when the object has no such field
Prop(v, f) == IF f \in DOMAIN v THEN v[f] ELSE Undefined

\* value?.field
Field(v, f) == IF IsNullish(v) THEN Undefined ELSE Prop(v, f)

isValidJsonRpcRequest(request) ==
  /\ Truthy(request)
  /\ Prop(request, "jsonrpc") = Str("2.0")
  /\ TypeOf(Prop(request, "method")) = "string"
  /\ Truthy(Prop(request, "id"))

\* isValidTaskSendParams without the test of parts.length
isValidTaskSendParams_anyparts(params) ==
  /\ Truthy(params)
  /\ TypeOf(Prop(params, "id")) = "string"
  /\ Truthy(Prop(params, "message"))
  /\ TypeOf(Prop(params.message, "role")) = "string"
  /\ IsArray(Prop(params.message, "parts"))

isValidTaskSendParams(params) ==
  /\ Truthy(params)
  /\ TypeOf(Prop(params, "id")) = "string"
  /\ Truthy(Prop(params, "message"))
  /\ TypeOf(Prop(params.message, "role")) = "string"
  /\ IsArray(Prop(params.message, "parts"))
  /\ Len(params.message.parts.items) > 0

\* an error response that carries a result as well
createErrorResponse_withresult(code, message, id) ==
  [jsonrpc |-> "2.0", id |-> id, result |-> Null,
   error |-> [code |-> code, message |-> message, data |-> Undefined]]

createErrorResponse(code, message, id) ==
  [jsonrpc |-> "2.0", id |-> id,
   error |-> [code |-> code, message |-> message, data |-> Undefined]]

ResultResponse(id, result) == [jsonrpc |-> "2.0", id |-> id, result |-> result]

(***************************************************************************)
(* The requests in flight.  A handler runs from one `await` to the next in *)
(* one step; a step that only computes on values the handler already holds *)
(* is folded into the step before it.                                      *)
(***************************************************************************)
\* the handler state of a tasks/send or tasks/cancel request
Running(pc, request, taskData, outcome, alone) ==
  [pc |-> pc, request |-> request, taskData |-> taskData,
   outcome |-> outcome, alone |-> alone]

TaskIdOf(slot) == slot.request.params.id.s

\* the requests that may change the task with this id
Mutators(taskId) ==
  {r \in Slots : reqs[r].pc # "idle" /\ TaskIdOf(reqs[r]) = taskId}

\* the response leaves; handler names the service handler the controller
\* called ("none" when it called none), outcome what processMessage did;
\* n tells one answer from the next
Answer(r, request, response, handler, outcome, alone) ==
  /\ reqs' = [reqs EXCEPT ![r] = Idle]
  /\ reply' = [n |-> 1 - reply.n, response |-> response,
               handler |-> handler, outcome |-> outcome, alone |-> alone]

\* a request on taskId starts: the requests already running on that id are
\* no longer alone
Start(r, taskId, slot) ==
  reqs' = [x \in Slots |->
             IF x = r THEN slot
             ELSE IF x \in Mutators(taskId)
                  THEN [reqs[x] EXCEPT !.alone = FALSE]
                  ELSE reqs[x]]

\* A2AAgentBaseService.handleTaskSend up to `await createOrGetTask(...)`
handleTaskSend(r, request) ==
  LET params == request.params
      taskId == params.id.s
      out == createOrGetTask(tasks, arrays, nextRef, now, taskId,
                             PlainMessage(params.message),
                             Prop(params, "sessionId"),
                             Prop(params, "metadata"))
  IN /\ sent < MaxSends
     /\ tasks[taskId] = Undefined => nextRef <= MaxArrays
     /\ tasks' = out.tasks
     /\ arrays' = out.arrays
     /\ nextRef' = IF tasks[taskId] = Undefined THEN nextRef + 1 ELSE nextRef
     /\ sent' = sent + 1
     /\ Start(r, taskId,
              Running("send_created", request, out.result, Undefined,
                      tasks[taskId] = Undefined /\ Mutators(taskId) = {}))
     /\ UNCHANGED <<reply, cancelAcked>>

\* handleTaskGet whose null is passed on as the result
handleTaskGet_noerror(r, request) ==
  LET taskData == getTask(tasks, MapKey(request.params.id))
  IN /\ Answer(r, request,
               ResultResponse(request.id,
                              IF taskData = Null THEN Null
                              ELSE taskData.task),
               "handleTaskGet", Undefined, FALSE)
     /\ UNCHANGED <<storeVars, sent, cancelAcked>>

\* A2AAgentBaseService.handleTaskGet and the controller's mapping of its
\* result
handleTaskGet(r, request) ==
  LET taskData == getTask(tasks, MapKey(request.params.id))
  IN /\ Answer(r, request,
               IF taskData = Null
               THEN createErrorResponse(TaskNotFound,
                      "Task not found: " \o StringOf(request.params.id),
                      request.id)
               ELSE ResultResponse(request.id, taskData.task),
               "handleTaskGet", Undefined, FALSE)
     /\ UNCHANGED <<storeVars, sent, cancelAcked>>

\* a cancel result that always reports success
CancelResult_always(id, canceled) == [id |-> id, canceled |-> TRUE]

\* { id: taskId, canceled } of handleTaskCancel
CancelResult(id, canceled) == [id |-> id, canceled |-> canceled]

\* A2AAgentBaseService.handleTaskCancel up to the call of updateTaskStatus
handleTaskCancel(r, request) ==
  LET taskData == getTask(tasks, MapKey(request.params.id))
  IN IF taskData = Null \/ taskData.task.status.state \in finalStates
     THEN /\ Answer(r, request,
                    ResultResponse(request.id,
                                   CancelResult(request.params.id, FALSE)),
                    "handleTaskCancel", Undefined, FALSE)
          /\ UNCHANGED <<storeVars, sent, cancelAcked>>
     ELSE /\ Start(r, request.params.id.s,
                   Running("cancel_checked", request, taskData, Undefined,
                           FALSE))
          /\ UNCHANGED <<storeVars, reply, sent, cancelAcked>>

\* A2AControllerBase.handleTaskSend
CtlHandleTaskSend(r, request) ==
  IF ~isValidTaskSendParams(request.params)
  THEN /\ Answer(r, request,
                 createErrorResponse(InvalidParams,
                                     "Invalid task send parameters",
                                     request.id),
                 "none", Undefined, FALSE)
       /\ UNCHANGED <<storeVars, sent, cancelAcked>>
  ELSE handleTaskSend(r, request)

\* A2AControllerBase.handleTaskGet
CtlHandleTaskGet(r, request) ==
  IF ~Truthy(Field(request.params, "id"))
  THEN /\ Answer(r, request,
                 createErrorResponse(InvalidParams, "Missing task ID",
                                     request.id),
                 "none", Undefined, FALSE)
       /\ UNCHANGED <<storeVars, sent, cancelAcked>>
  ELSE handleTaskGet(r, request)

\* A2AControllerBase.handleTaskCancel
CtlHandleTaskCancel(r, request) ==
  IF ~Truthy(Field(request.params, "id"))
  THEN /\ Answer(r, request,
                 createErrorResponse(InvalidParams, "Missing task ID",
                                     request.id),
                 "none", Undefined, FALSE)
       /\ UNCHANGED <<storeVars, sent, cancelAcked>>
  ELSE handleTaskCancel(r, request)

\* A2AControllerBase.processJsonRpcRequest: a request arrives
processJsonRpcRequest(r, request) ==
  /\ reqs[r].pc = "idle"
  /\ UNCHANGED <<now, ret, orchVars>>
  /\ IF ~isValidJsonRpcRequest(request)
     THEN /\ Answer(r, request,
                    createErrorResponse(InvalidRequest,
                      "Invalid JSON-RPC request",
                      IF TypeOf(Field(request, "id")) = "string"
                      THEN request.id ELSE Str("0")),
                    "none", Undefined, FALSE)
          /\ UNCHANGED <<storeVars, sent, cancelAcked>>
     ELSE IF request.method = Str("tasks/send")
          THEN CtlHandleTaskSend(r, request)
     ELSE IF request.method = Str("tasks/get")
          THEN CtlHandleTaskGet(r, request)
     ELSE IF request.method = Str("tasks/cancel")
          THEN CtlHandleTaskCancel(r, request)
     ELSE /\ Answer(r, request,
                    createErrorResponse(MethodNotFound,
                      "Method not supported: " \o request.method.s,
                      request.id),
                    "none", Undefined, FALSE)
          /\ UNCHANGED <<storeVars, sent, cancelAcked>>

\* handleTaskSend resumes after createOrGetTask and calls
\* updateTaskStatusToWorking, which runs up to `await this.getTask(taskId)`
SendWorkingRead(r) ==
  /\ reqs[r].pc = "send_created"
  /\ reqs' = [reqs EXCEPT ![r].pc = "send_working_read",
                          ![r].taskData = getTask(tasks, TaskIdOf(reqs[r]))]
  /\ UNCHANGED <<storeVars, now, ret, orchVars, reply, sent, cancelAcked>>

\* the catch block of handleTaskSend calls updateTaskStatusToFailed, which
\* runs up to `await this.getTask(taskId)`
Caught(r, error, store) ==
  reqs' = [reqs EXCEPT ![r].pc = "send_failed_read",
                       ![r].outcome = error,
                       ![r].taskData = getTask(store, TaskIdOf(reqs[r]))]

\* updateTaskStatus(WORKING) that changes the task object it has read instead
\* of a copy: every request that holds that object sees the new status
SendWorkingWrite_inplace(r) ==
  LET taskId == TaskIdOf(reqs[r])
      out == updateTaskStatusToWorking(tasks, arrays, now, taskId,
                                       reqs[r].taskData)
  IN /\ reqs[r].pc = "send_working_read"
     /\ tasks' = out.tasks
     /\ arrays' = out.arrays
     /\ IF out.result = Null
        THEN Caught(r, createError(TaskNotFound,
                                   "Task " \o taskId \o " not found"),
                    out.tasks)
        ELSE reqs' = [x \in Slots |->
                        IF x = r
                        THEN [reqs[r] EXCEPT !.pc = "processing",
                                             !.taskData = out.result]
                        ELSE IF /\ reqs[x].pc # "idle"
                                /\ reqs[x].taskData = reqs[r].taskData
                             THEN [reqs[x] EXCEPT !.taskData = out.result]
                             ELSE reqs[x]]
     /\ UNCHANGED <<nextRef, now, ret, orchVars, reply, sent, cancelAcked>>

\* updateTaskStatus(WORKING) writes; handleTaskSend then calls processMessage
SendWorkingWrite(r) ==
  LET taskId == TaskIdOf(reqs[r])
      out == updateTaskStatusToWorking(tasks, arrays, now, taskId,
                                       reqs[r].taskData)
  IN /\ reqs[r].pc = "send_working_read"
     /\ tasks' = out.tasks
     /\ arrays' = out.arrays
     /\ IF out.result = Null
        THEN Caught(r, createError(TaskNotFound,
                                   "Task " \o taskId \o " not found"),
                    out.tasks)
        ELSE reqs' = [reqs EXCEPT ![r].pc = "processing",
                                  ![r].taskData = out.result]
     /\ UNCHANGED <<nextRef, now, ret, orchVars, reply, sent, cancelAcked>>

\* processMessage resolves with a message; handleTaskSend calls
\* updateTaskStatus(COMPLETED, message), which runs up to its await
ProcessMessageReturns(r, message) ==
  /\ reqs[r].pc = "processing"
  /\ reqs' = [reqs EXCEPT ![r].pc = "send_completed_read",
                          ![r].outcome = message,
                          ![r].taskData = getTask(tasks, TaskIdOf(reqs[r]))]
  /\ UNCHANGED <<storeVars, now, ret, orchVars, reply, sent, cancelAcked>>

\* processMessage rejects with an error
ProcessMessageThrows(r, error) ==
  /\ reqs[r].pc = "processing"
  /\ Caught(r, error, tasks)
  /\ UNCHANGED <<storeVars, now, ret, orchVars, reply, sent, cancelAcked>>

\* updateTaskStatus(COMPLETED) writes; handleTaskSend returns the task and
\* the controller answers with it
SendCompletedWrite(r) ==
  LET taskId == TaskIdOf(reqs[r])
      out == updateTaskStatusResume(tasks, arrays, now, taskId,
                                    reqs[r].taskData, "completed",
                                    reqs[r].outcome)
  IN /\ reqs[r].pc = "send_completed_read"
     /\ tasks' = out.tasks
     /\ arrays' = out.arrays
     /\ IF out.result = Null
        THEN /\ Caught(r, createError(InternalError,
                                      "Failed to update task " \o taskId),
                       out.tasks)
             /\ UNCHANGED reply
        ELSE Answer(r, reqs[r].request,
                    ResultResponse(reqs[r].request.id, out.result.task),
                    "handleTaskSend", reqs[r].outcome, reqs[r].alone)
     /\ UNCHANGED <<nextRef, now, ret, orchVars, sent, cancelAcked>>

\* updateTaskStatus(FAILED) writes; handleTaskSend throws the error again and
\* the catch block of processJsonRpcRequest answers
SendFailedWrite(r) ==
  LET taskId == TaskIdOf(reqs[r])
      error == reqs[r].outcome
      out == updateTaskStatusToFailed(tasks, arrays, now, taskId,
                                      reqs[r].taskData, error)
  IN /\ reqs[r].pc = "send_failed_read"
     /\ tasks' = out.tasks
     /\ arrays' = out.arrays
     /\ Answer(r, reqs[r].request,
               createErrorResponse(InternalError, ErrorText(error),
                                   reqs[r].request.id),
               "handleTaskSend", error, reqs[r].alone)
     /\ UNCHANGED <<nextRef, now, ret, orchVars, sent, cancelAcked>>

\* handleTaskCancel found a state that is not final and calls
\* updateTaskStatus(CANCELED), which runs up to its await
CancelRead(r) ==
  /\ reqs[r].pc = "cancel_checked"
  /\ reqs' = [reqs EXCEPT ![r].pc = "cancel_read",
                          ![r].taskData = getTask(tasks, TaskIdOf(reqs[r]))]
  /\ UNCHANGED <<storeVars, now, ret, orchVars, reply, sent, cancelAcked>>

\* updateTaskStatus(CANCELED) writes; handleTaskCancel returns
\* canceled: !!updatedTaskData
CancelWrite(r) ==
  LET taskId == TaskIdOf(reqs[r])
      out == updateTaskStatusResume(tasks, arrays, now, taskId,
                                    reqs[r].taskData, "canceled", Undefined)
      canceled == out.result # Null
  IN /\ reqs[r].pc = "cancel_read"
     /\ tasks' = out.tasks
     /\ arrays' = out.arrays
     /\ Answer(r, reqs[r].request,
               ResultResponse(reqs[r].request.id,
                              CancelResult(reqs[r].request.params.id,
                                           canceled)),
               "handleTaskCancel", Undefined, FALSE)
     /\ cancelAcked' =
          IF canceled /\ \E x \in Slots : /\ reqs[x].pc = "processing"
                                          /\ TaskIdOf(reqs[x]) = taskId
          THEN cancelAcked \cup {taskId}
          ELSE cancelAcked
     /\ UNCHANGED <<nextRef, now, ret, orchVars, sent>>

(***************************************************************************)
(* An agent serving well-formed requests that overlap in time.             *)
(***************************************************************************)
RequestId == Str("r1")

\* the body of a message with one text part
MessageBody(role, text) == [role |-> Str(role), parts |-> Arr(<<TextPart(text)>>)]

SendParams(id, message) == [id |-> id, message |-> message]

IdParams(id) == [id |-> id]

Request(jsonrpc, id, method, params) ==
  [jsonrpc |-> jsonrpc, id |-> id, method |-> method, params |-> params]

AgentRequests ==
  {Request(Str("2.0"), RequestId, Str("tasks/send"),
           SendParams(Str(t), MessageBody("user", "q1"))) : t \in TaskIds}
  \cup {Request(Str("2.0"), RequestId, Str(m), IdParams(Str(t))) :
          m \in {"tasks/get", "tasks/cancel"}, t \in TaskIds}

\* what processMessage of an agent may resolve or reject with
Answers == {TextMessage("agent", "a1")}
Errors == {Error("boom")}

SendStep(r) ==
  \/ SendWorkingRead(r)
  \/ SendWorkingWrite(r)
  \/ \E m \in Answers : ProcessMessageReturns(r, m)
  \/ \E e \in Errors : ProcessMessageThrows(r, e)
  \/ SendCompletedWrite(r)
  \/ SendFailedWrite(r)

CancelStep(r) ==
  \/ CancelRead(r)
  \/ CancelWrite(r)

NextAgent ==
  \/ Tick
  \/ \E r \in Slots, request \in AgentRequests :
       processJsonRpcRequest(r, request)
  \/ \E r \in Slots : SendStep(r)
  \/ \E r \in Slots : CancelStep(r)

SpecAgent == Init /\ [][NextAgent]_vars

(***************************************************************************)
(* An agent serving request bodies of every shape, one after the other.    *)
(***************************************************************************)
\* bodies of params.message: well-formed, without a string role, with no
\* parts, with parts that are no array
MessageBodies ==
  {MessageBody("user", "q1"),
   [role |-> Num(5), parts |-> Arr(<<TextPart("q1")>>)],
   [parts |-> Arr(<<TextPart("q1")>>)],
   [role |-> Str("user"), parts |-> Arr(<<>>)],
   [role |-> Str("user"), parts |-> Str("q1")],
   [role |-> Str("user")]}

GoodSendParams == SendParams(Str("t1"), MessageBody("user", "q1"))

\* params of tasks/send: none, without id, without message, and an id that
\* is or is not a string with each message body
SendParamsValues ==
  {Undefined, [message |-> MessageBody("user", "q1")], IdParams(Str("t1"))}
  \cup {SendParams(i, m) : i \in {Str("t1"), Num(5)}, m \in MessageBodies}

\* params of tasks/get and tasks/cancel: none, without id, and each kind of id
IdParamsValues ==
  {Undefined, [message |-> MessageBody("user", "q1")]}
  \cup {IdParams(i) : i \in {Str("t1"), Str("t2"), Str(""), Num(5), Num(0)}}

\* no body at all; each fault of the envelope on its own; two faults at
\* once; every params value under the method that reads it
ControllerRequests ==
  {Undefined, Null}
  \cup {Request(j, RequestId, Str("tasks/send"), GoodSendParams) :
          j \in {Str("1.0"), Num(2), Undefined}}
  \cup {Request(Str("2.0"), i, Str("tasks/send"), GoodSendParams) :
          i \in {Str(""), Num(5), Num(0), Undefined}}
  \cup {Request(Str("2.0"), RequestId, m, p) :
          m \in {Str("tasks/sendSubscribe"), Num(5), Undefined},
          p \in {GoodSendParams, Undefined}}
  \cup {Request(Str("1.0"), Undefined, Str("tasks/sendSubscribe"), Undefined)}
  \cup {Request(Str("2.0"), RequestId, Str("tasks/send"), p) :
          p \in SendParamsValues}
  \cup {Request(Str("2.0"), RequestId, m, p) :
          m \in {Str("tasks/get"), Str("tasks/cancel")},
          p \in IdParamsValues}

NextController ==
  \/ Tick
  \/ \E request \in ControllerRequests : processJsonRpcRequest(1, request)
  \/ SendStep(1)

SpecController == Init /\ [][NextController]_vars

(***************************************************************************)
(* JavaScript strings: String.prototype.includes, toLowerCase and trim.    *)
(***************************************************************************)
includes(s, sub) ==
  \E i \in 1..(Len(s) - Len(sub) + 1) : SubSeq(s, i, i + Len(sub) - 1) = sub

UpperCase == "ABCDEFGHIJKLMNOPQRSTUVWXYZ"
LowerCase == "abcdefghijklmnopqrstuvwxyz"

\* upper-case letter -> its lower-case form
LowerOf ==
  [c \in {SubSeq(UpperCase, i, i) : i \in 1..Len(UpperCase)} |->
     LET i == CHOOSE k \in 1..Len(UpperCase) : SubSeq(UpperCase, k, k) = c
     IN SubSeq(LowerCase, i, i)]

\* the lower-case form of a string of one character
LowerChar(c) == IF c \in DOMAIN LowerOf THEN LowerOf[c] ELSE c

RECURSIVE toLowerCase(_)
toLowerCase(s) ==
  IF s = "" THEN "" ELSE LowerChar(SubSeq(s, 1, 1)) \o toLowerCase(Tail(s))

WhiteSpace == {" ", "\n"}

RECURSIVE trimStart(_)
trimStart(s) ==
  IF s # "" /\ SubSeq(s, 1, 1) \in WhiteSpace THEN trimStart(Tail(s)) ELSE s

RECURSIVE trimEnd(_)
trimEnd(s) ==
  IF s # "" /\ SubSeq(s, Len(s), Len(s)) \in WhiteSpace
  THEN trimEnd(SubSeq(s, 1, Len(s) - 1))
  ELSE s

trim(s) == trimEnd(trimStart(s))

(***************************************************************************)
(* AgentRegistryService (agent-registry.service.ts).  The Map `agents` is  *)
(* the sequence of its entries in insertion order.                         *)
(***************************************************************************)
MAX_RETRIES == 5

agentUrls ==
  <<"http://localhost:3333/api/agents/a2a/vue-core",
    "http://localhost:3333/api/agents/a2a/vuex">>

\* an AgentCard with one skill; cards differ in name, url and version
AgentCard(name, url, version) ==
  [name |-> Str(name), url |-> Str(url),
   version |-> Str(version), capabilities |-> [streaming |-> FALSE],
   skills |-> Arr(<<[name |-> "knowledge"]>>)]

\* isValidAgentCard that does not look at the skills
isValidAgentCard_noskills(card) ==
  /\ Truthy(card)
  /\ TypeOf(Prop(card, "name")) = "string"
  /\ TypeOf(Prop(card, "url")) = "string"
  /\ TypeOf(Prop(card, "version")) = "string"
  /\ Truthy(Prop(card, "capabilities"))

isValidAgentCard(card) ==
  /\ Truthy(card)
  /\ TypeOf(Prop(card, "name")) = "string"
  /\ TypeOf(Prop(card, "url")) = "string"
  /\ TypeOf(Prop(card, "version")) = "string"
  /\ Truthy(Prop(card, "capabilities"))
  /\ IsArray(Prop(card, "skills"))
  /\ Len(card.skills.items) > 0

\* Map.prototype.has, get, set and size on a sequence of [key, value]
MapHas(map, key) == \E i \in 1..Len(map) : map[i].key = key

MapValue(map, key) ==
  IF MapHas(map, key)
  THEN map[CHOOSE i \in 1..Len(map) : map[i].key = key].value
  ELSE Undefined

\* Map.set that keeps the entry a key already has
MapSet_keepfirst(map, key, value) ==
  IF MapHas(map, key) THEN map ELSE Append(map, [key |-> key, value |-> value])

MapSet(map, key, value) ==
  IF MapHas(map, key)
  THEN [i \in 1..Len(map) |->
          IF map[i].key = key THEN [key |-> key, value |-> value] ELSE map[i]]
  ELSE Append(map, [key |-> key, value |-> value])

\* Array.from(this.agents.values())
getAgents(registry) == [i \in 1..Len(registry) |-> registry[i].value]

getAgentByName(registry, name) == MapValue(registry, name)

\* findAgentForQuery that does not lower-case the query
findAgentForQuery_casesensitive(registry, query) ==
  LET queryLower == query
  IN IF \/ includes(queryLower, "vuex")
        \/ includes(queryLower, "state management")
        \/ includes(queryLower, "store")
        \/ (includes(queryLower, "state")
              /\ (includes(queryLower, "manage")
                    \/ includes(queryLower, "management")))
     THEN getAgentByName(registry, "Vuex A2A Agent")
     ELSE getAgentByName(registry, "Vue Core A2A Agent")

findAgentForQuery(registry, query) ==
  LET queryLower == toLowerCase(query)
  IN IF \/ includes(queryLower, "vuex")
        \/ includes(queryLower, "state management")
        \/ includes(queryLower, "store")
        \/ (includes(queryLower, "state")
              /\ (includes(queryLower, "manage")
                    \/ includes(queryLower, "management")))
     THEN getAgentByName(registry, "Vuex A2A Agent")
     ELSE getAgentByName(registry, "Vue Core A2A Agent")

\* addAgent that adds an entry for every card it is given
addAgent_append(registry, card) ==
  IF ~isValidAgentCard(card)
  THEN [agents |-> registry, thrown |-> Error("Invalid agent card")]
  ELSE [agents |-> Append(registry, [key |-> card.name.s, value |-> card]),
        thrown |-> Undefined]

\* addAgent: the registry afterwards and what the call threw (nothing:
\* Undefined)
addAgent(registry, card) ==
  IF ~isValidAgentCard(card)
  THEN [agents |-> registry, thrown |-> Error("Invalid agent card")]
  ELSE [agents |-> MapSet(registry, card.name.s, card), thrown |-> Undefined]

\* the two cards manuallyRegisterAgents of the orchestrator builds
VueCoreCard == AgentCard("Vue Core A2A Agent", agentUrls[1], "1.0.0")
VuexCard == AgentCard("Vuex A2A Agent", agentUrls[2], "1.0.0")

\* the card of a later version of the Vuex agent
VuexCard2 == AgentCard("Vuex A2A Agent", agentUrls[2], "2.0.0")

\* a retry chain: what it waits for, its retryCount, the endpoint it is at,
\* the endpoints found accessible, and how often discoverAgents was executed
Chain(pc, retryCount, index, accessible, executions) ==
  [pc |-> pc, retryCount |-> retryCount, index |-> index,
   accessible |-> accessible, executions |-> executions]

\* the retry test that does not look at the registry
RetryCondition_anysize(size, retryCount) == retryCount < MAX_RETRIES

\* the retry test that lets retryCount reach MAX_RETRIES + 1
RetryCondition_offbyone(size, retryCount) ==
  size = 0 /\ retryCount <= MAX_RETRIES

\* this.agents.size === 0 && retryCount < this.MAX_RETRIES
RetryCondition(size, retryCount) == size = 0 /\ retryCount < MAX_RETRIES

\* discoverAgents returns: its locals are gone
discoverAgentsReturns(chain) ==
  Chain("discovered", chain.retryCount, 0, <<>>, chain.executions)

\* discoverAgentsWithRetry(retryCount) up to the first
\* `await this.a2aClient.isAgentAccessible(endpoint)` of discoverAgents
discoverAgentsWithRetry(c, retryCount, executions) ==
  chains' = [chains EXCEPT ![c] = Chain("checking", retryCount, 1, <<>>,
                                        executions + 1)]

\* the timer of onModuleInit fires
StartDiscovery(c) ==
  /\ chains[c].pc = "none"
  /\ discoverAgentsWithRetry(c, 0, 0)
  /\ UNCHANGED <<storeVars, now, ret, agentVars, agents, pm, fallback, client>>

\* isAgentAccessible resolves with true or false; after the last endpoint
\* the loop over the accessible endpoints begins
AccessibilityAnswered(c, isAccessible) ==
  LET chain == chains[c]
      accessible == IF isAccessible
                    THEN Append(chain.accessible, agentUrls[chain.index])
                    ELSE chain.accessible
  IN /\ chain.pc = "checking"
     /\ chains' = [chains EXCEPT ![c] =
          IF chain.index < Len(agentUrls)
          THEN [chain EXCEPT !.index = chain.index + 1,
                             !.accessible = accessible]
          ELSE IF accessible # <<>>
          THEN [chain EXCEPT !.pc = "registering", !.index = 1,
                             !.accessible = accessible]
          ELSE discoverAgentsReturns(chain)]
     /\ UNCHANGED <<storeVars, now, ret, agentVars, agents, pm, fallback, client>>

\* what GET <endpoint>/.well-known/agent.json may answer: no answer (the
\* request fails or times out), a card, or a body that is no valid card
NoAnswer == [failed |-> TRUE]
EndpointAnswers(endpoint) ==
  IF endpoint = agentUrls[1]
  THEN {NoAnswer, VueCoreCard, [VueCoreCard EXCEPT !.skills = Arr(<<>>)]}
  ELSE {NoAnswer, VuexCard}

\* discoverAgents that gives up at the first endpoint without a valid card
CardAnswered_abort(c, answer) ==
  LET chain == chains[c]
      registers == answer # NoAnswer /\ isValidAgentCard(answer)
  IN /\ chain.pc = "registering"
     /\ answer \in EndpointAnswers(chain.accessible[chain.index])
     /\ agents' = IF registers
                  THEN MapSet(agents, answer.name.s, answer)
                  ELSE agents
     /\ chains' = [chains EXCEPT ![c] =
          IF registers /\ chain.index < Len(chain.accessible)
          THEN [chain EXCEPT !.index = chain.index + 1]
          ELSE discoverAgentsReturns(chain)]
     /\ UNCHANGED <<storeVars, now, ret, agentVars, pm, fallback, client>>

\* registerAgentFromEndpoint resumes after `await getAgentCard(endpoint)`;
\* discoverAgents catches what it throws and goes on with the next endpoint
CardAnswered(c, answer) ==
  LET chain == chains[c]
  IN /\ chain.pc = "registering"
     /\ answer \in EndpointAnswers(chain.accessible[chain.index])
     /\ agents' = IF answer # NoAnswer /\ isValidAgentCard(answer)
                  THEN MapSet(agents, answer.name.s, answer)
                  ELSE agents
     /\ chains' = [chains EXCEPT ![c] =
          IF chain.index < Len(chain.accessible)
          THEN [chain EXCEPT !.index = chain.index + 1]
          ELSE discoverAgentsReturns(chain)]
     /\ UNCHANGED <<storeVars, now, ret, agentVars, pm, fallback, client>>

\* discoverAgentsWithRetry resumes after `await this.discoverAgents()`
DiscoveryResolved(c) ==
  /\ chains[c].pc = "discovered"
  /\ chains' = [chains EXCEPT ![c].pc =
       IF RetryCondition(Len(agents), chains[c].retryCount)
       THEN "scheduled" ELSE "stopped"]
  /\ UNCHANGED <<storeVars, now, ret, agentVars, agents, pm, fallback, client>>

\* the timer set with RETRY_DELAY_MS fires
RetryTimerFires(c) ==
  /\ chains[c].pc = "scheduled"
  /\ discoverAgentsWithRetry(c, chains[c].retryCount + 1,
                             chains[c].executions)
  /\ UNCHANGED <<storeVars, now, ret, agentVars, agents, pm, fallback, client>>

ChainStep(c) ==
  \/ \E isAccessible \in BOOLEAN : AccessibilityAnswered(c, isAccessible)
  \/ \E answer \in EndpointAnswers(agentUrls[1])
                     \cup EndpointAnswers(agentUrls[2]) :
       CardAnswered(c, answer)
  \/ DiscoveryResolved(c)
  \/ RetryTimerFires(c)

(***************************************************************************)
(* The registry called directly while discovery runs.                      *)
(***************************************************************************)
\* what a call on the registry returned or threw
RegistryReturned(op, result) == [op |-> op, result |-> result]

CallAddAgent(card) ==
  LET out == addAgent(agents, card)
  IN /\ agents' = out.agents
     /\ ret' = RegistryReturned("addAgent", out.thrown)
     /\ UNCHANGED <<storeVars, now, agentVars, chains, pm, fallback, client>>

\* the registry after the two addAgent calls of manuallyRegisterAgents
ManuallyRegistered(registry) ==
  addAgent(addAgent(registry, VueCoreCard).agents, VuexCard).agents

\* OrchestratorService.manuallyRegisterAgents
manuallyRegisterAgents ==
  /\ agents' = ManuallyRegistered(agents)
  /\ ret' = RegistryReturned("manuallyRegisterAgents", Undefined)
  /\ UNCHANGED <<storeVars, now, agentVars, chains, pm, fallback, client>>

\* the start-up timer that registers whatever the registry holds
FallbackTimerFires_always ==
  /\ fallback = "pending"
  /\ fallback' = "fired"
  /\ UNCHANGED client
  /\ agents' = ManuallyRegistered(agents)
  /\ ret' = RegistryReturned("onModuleInit", Undefined)
  /\ UNCHANGED <<storeVars, now, agentVars, chains, pm>>

\* the timer OrchestratorService.onModuleInit sets fires: its callback
\* reads the registry and calls manuallyRegisterAgents if it is empty
FallbackTimerFires ==
  /\ fallback = "pending"
  /\ fallback' = "fired"
  /\ UNCHANGED client
  /\ agents' = IF Len(getAgents(agents)) = 0
               THEN ManuallyRegistered(agents)
               ELSE agents
  /\ ret' = RegistryReturned("onModuleInit", Undefined)
  /\ UNCHANGED <<storeVars, now, agentVars, chains, pm>>

\* OrchestratorController.registerAgents: POST register-agents
registerAgents ==
  /\ agents' = ManuallyRegistered(agents)
  /\ ret' = RegistryReturned("registerAgents",
               [success |-> TRUE,
                message |-> "Manual agent registration triggered",
                agents |-> getAgents(agents'),
                count |-> Len(getAgents(agents'))])
  /\ UNCHANGED <<storeVars, now, agentVars, chains, pm, fallback, client>>

\* what findAgentForQuery(query) returned
Routed(query, result) ==
  [op |-> "findAgentForQuery", query |-> query, result |-> result]

CallFindAgentForQuery(query) ==
  /\ ret' = Routed(query, findAgentForQuery(agents, query))
  /\ UNCHANGED <<storeVars, now, agentVars, orchVars>>

\* cards addAgent is called with: valid ones, two of them of one name, and
\* one for each way of failing the validity test
Cards ==
  {VueCoreCard, VuexCard, VuexCard2,
   Undefined, Null,
   [VueCoreCard EXCEPT !.name = Num(5)],
   [VueCoreCard EXCEPT !.url = Undefined],
   [VueCoreCard EXCEPT !.version = Num(1)],
   [VueCoreCard EXCEPT !.capabilities = Undefined],
   [VueCoreCard EXCEPT !.skills = Arr(<<>>)],
   [VueCoreCard EXCEPT !.skills = Str("knowledge")],
   [VueCoreCard EXCEPT !.skills = Undefined]}

Queries ==
  {"how do I use Vuex getters", "explain component lifecycle hooks",
   "How do I manage state in a Vue application?",
   "STATE MANAGEMENT", "Restore the page", "the state of props",
   "real estate manager", "What is a Statement?", ""}

NextRegistry ==
  \/ \E c \in Chains : StartDiscovery(c)
  \/ \E c \in Chains : ChainStep(c)
  \/ \E card \in Cards : CallAddAgent(card)
  \/ manuallyRegisterAgents
  \/ registerAgents
  \/ FallbackTimerFires

SpecRegistry == Init /\ [][NextRegistry]_vars

\* timers fire and requests to an endpoint are answered or time out
SpecRegistryFair ==
  SpecRegistry /\ \A c \in Chains : WF_vars(StartDiscovery(c) \/ ChainStep(c))

(***************************************************************************)
(* OpenAIService.selectAgentForQuery (openai.service.ts) and               *)
(* OrchestratorService (orchestrator.service.ts).                          *)
(***************************************************************************)
\* what openai.chat.completions.create does: it resolves with a content or
\* rejects
Completion(content) == [content |-> content]
CompletionFails == [rejected |-> TRUE]

\* agents.find(...): the first agent of the list whose lower-cased name
\* contains the lower-cased answer or is contained in it, if there is one
MatchedAgents(agentList, selectedAgentName) ==
  {i \in 1..Len(agentList) :
     \/ includes(toLowerCase(agentList[i].name.s),
                 toLowerCase(selectedAgentName))
     \/ includes(toLowerCase(selectedAgentName),
                 toLowerCase(agentList[i].name.s))}

First(indices) == CHOOSE i \in indices : \A j \in indices : i <= j

\* selectAgentForQuery that hands the answer of the LLM through
selectAgentForQuery_unmatched(agentList, completion) ==
  IF Len(agentList) = 0 THEN ""
  ELSE IF Len(agentList) = 1 THEN agentList[1].name.s
  ELSE IF completion = CompletionFails THEN agentList[1].name.s
  ELSE trim(completion.content)

\* selectAgentForQuery of two or more agents from the answer of the LLM on
selectAgentForQuery(agentList, completion) ==
  IF Len(agentList) = 0 THEN ""
  ELSE IF Len(agentList) = 1 THEN agentList[1].name.s
  ELSE IF completion = CompletionFails THEN agentList[1].name.s
  ELSE LET selectedAgentName == trim(completion.content)
           matched == MatchedAgents(agentList, selectedAgentName)
       IN IF selectedAgentName = "" THEN agentList[1].name.s
          ELSE IF matched # {} THEN agentList[First(matched)].name.s
          ELSE agentList[1].name.s

createResponseMessage(text) == TextMessage("agent", text)

createErrorMessage(errorText) == createResponseMessage("Error: " \o errorText)

\* the outcome of a call: a value returned or an error thrown
Return(value) == [value |-> value]
Throw(error) == [thrown |-> error]
Threw(outcome) == "thrown" \in DOMAIN outcome

RECURSIVE TextOfParts(_)
TextOfParts(parts) ==
  IF parts = <<>> THEN ""
  ELSE (IF Prop(parts[1], "type") = "text" THEN parts[1].text \o " " ELSE "")
         \o TextOfParts(Tail(parts))

\* reading part.type of a part that is null or undefined throws
extractTextFromMessage(message) ==
  LET parts == message.parts.items
  IN IF \E i \in 1..Len(parts) : IsNullish(parts[i])
     THEN Throw(Error("Cannot read properties of null (reading 'type')"))
     ELSE Return(trim(TextOfParts(parts)))

\* the catch block of findBestAgentForQuery
KeywordFallback(registry, query) ==
  LET queryLower == toLowerCase(query)
  IN IF \/ includes(queryLower, "vuex")
        \/ includes(queryLower, "getter")
        \/ includes(queryLower, "mutation")
        \/ includes(queryLower, "action")
        \/ includes(queryLower, "commit")
        \/ includes(queryLower, "dispatch")
        \/ (includes(queryLower, "state")
              /\ includes(queryLower, "management"))
        \/ (includes(queryLower, "state") /\ includes(queryLower, "store"))
     THEN getAgentByName(registry, "Vuex A2A Agent")
     ELSE IF \/ includes(queryLower, "component")
             \/ includes(queryLower, "props")
             \/ includes(queryLower, "directive")
             \/ includes(queryLower, "lifecycle")
             \/ includes(queryLower, "template")
     THEN getAgentByName(registry, "Vue Core A2A Agent")
     ELSE IF Len(registry) > 0 THEN getAgents(registry)[1] ELSE Undefined

\* agent.skills.map(skill => skill.name) throws on a skill that is null
SkillsMapThrows(agentList) ==
  \E i \in 1..Len(agentList) :
    \E k \in 1..Len(agentList[i].skills.items) :
      IsNullish(agentList[i].skills.items[k])

SkillsError == Error("Cannot read properties of null (reading 'name')")

\* findBestAgentForQuery up to its await: it asks the LLM
Awaits(agentList) == [awaits |-> agentList]

\* findBestAgentForQuery that asks the LLM about a single agent too
findBestAgentForQuery_alwaysasks(registry, query) ==
  LET agentList == getAgents(registry)
  IN IF Len(agentList) = 0 THEN Return(Undefined)
     ELSE IF SkillsMapThrows(agentList)
     THEN Return(KeywordFallback(registry, query))
     ELSE Awaits(agentList)

\* findBestAgentForQuery up to `await selectAgentForQuery(query, agents)`,
\* or to its end when it returns before
findBestAgentForQuery(registry, query) ==
  LET agentList == getAgents(registry)
  IN IF Len(agentList) = 0 THEN Return(Undefined)
     ELSE IF Len(agentList) = 1 THEN Return(agentList[1])
     ELSE IF SkillsMapThrows(agentList)
     THEN Return(KeywordFallback(registry, query))
     ELSE Awaits(agentList)

\* findBestAgentForQuery after `await selectAgentForQuery(query, agents)`:
\* the list is the one read before the call, the registry the one of now
findBestAgentForQueryResume(registry, agentList, query, completion) ==
  LET selectedAgentName == selectAgentForQuery(agentList, completion)
  IN IF selectedAgentName # ""
     THEN getAgentByName(registry, selectedAgentName)
     ELSE findAgentForQuery(registry, query)

\* agent.skills.map(s => s.name).join(', ')
RECURSIVE SkillNames(_)
SkillNames(skills) ==
  IF skills = <<>> THEN ""
  ELSE IF Len(skills) = 1 THEN skills[1].name
  ELSE skills[1].name \o ", " \o SkillNames(Tail(skills))

\* the three lines of each agent; the cards have no description, and the
\* clipboard sign before the name is left out
RECURSIVE AgentLines(_)
AgentLines(agentList) ==
  IF agentList = <<>> THEN ""
  ELSE agentList[1].name.s \o "\n"
         \o "   Description: No description\n"
         \o "   Skills: " \o SkillNames(agentList[1].skills.items) \o "\n\n"
         \o AgentLines(Tail(agentList))

\* createAgentListResponse that never finds an agent
createAgentListResponse_empty(registry) ==
  createResponseMessage("No agents are currently available. Try typing \"discover agents\" to initiate agent discovery.")

createAgentListResponse(registry) ==
  IF Len(registry) = 0
  THEN createResponseMessage("No agents are currently available. Try typing \"discover agents\" to initiate agent discovery.")
  ELSE createResponseMessage("Available agents:\n\n"
                               \o AgentLines(getAgents(registry)))

(***************************************************************************)
(* A2AClientService (a2a-client.service.ts).                               *)
(***************************************************************************)
\* the n-th value uuidv4() yields in the process: version-4 UUIDs are 122
\* random bits, and the values drawn are taken to be pairwise different
uuidv4(n) == "uuid-" \o NatText(n)

\* what the HTTP request of axios ends with: a response of the server, a
\* failure without a response, or a value thrown that is no AxiosError
Http(status, data) == [kind |-> "http", status |-> status, data |-> data]
Failure(code, message) ==
  [kind |-> "failure", code |-> code, message |-> message]
Thrown(message) == [kind |-> "thrown", message |-> message]

\* the message of the AxiosError of a response validateStatus rejects
StatusMessage(status) ==
  "Request failed with status code " \o NatText(status)

\* the message of the TypeError of reading a property of null or undefined
TypeErrorOf(v, property) ==
  Error("Cannot read properties of " \o StringOf(v) \o " (reading '"
          \o property \o "')")

\* the JSON-RPC response sendJsonRpcRequest builds for a failure
InternalErrorResponse(request, message) ==
  [jsonrpc |-> Str("2.0"), id |-> request.id,
   error |-> [code |-> Num(-32603), message |-> Str(message)]]

\* A2AClientService.sendJsonRpcRequest from the end of axios.post on
sendJsonRpcRequest(request, answer) ==
  IF answer.kind = "http" /\ answer.status \in 200..299
  THEN answer.data
  ELSE IF answer.kind = "thrown"
  THEN InternalErrorResponse(request, answer.message)
  ELSE IF /\ answer.kind = "failure"
          /\ answer.code \in {"ECONNREFUSED", "ETIMEDOUT"}
  THEN InternalErrorResponse(request, answer.message)
  ELSE IF answer.kind = "http"
  THEN IF Truthy(answer.data) /\ Truthy(Prop(answer.data, "error"))
       THEN answer.data
       ELSE InternalErrorResponse(request, StatusMessage(answer.status))
  ELSE InternalErrorResponse(request, answer.message)

\* the request sendTask builds: uuidv4() for the task, uuidv4() for the
\* request; drawn is the number of values uuidv4 has yielded before
sendTaskRequest_sameid(drawn, message, sessionId) ==
  [jsonrpc |-> "2.0", id |-> uuidv4(drawn + 1), method |-> "tasks/send",
   params |-> [id |-> uuidv4(drawn + 1),
               sessionId |-> IF Truthy(sessionId) THEN sessionId ELSE Null,
               message |-> message]]

sendTaskRequest(drawn, message, sessionId) ==
  [jsonrpc |-> "2.0", id |-> uuidv4(drawn + 2), method |-> "tasks/send",
   params |-> [id |-> uuidv4(drawn + 1),
               sessionId |-> IF Truthy(sessionId) THEN sessionId ELSE Null,
               message |-> message]]

\* the request of getTask and of cancelTask
taskIdRequest(drawn, method, taskId) ==
  [jsonrpc |-> "2.0", id |-> uuidv4(drawn + 1), method |-> method,
   params |-> [id |-> taskId]]

\* the client after it has posted a request to an agent
Posted(service, drawn, agentUrl, request) ==
  [uuids |-> service.uuids + drawn,
   posted |-> Append(service.posted, [url |-> agentUrl, request |-> request])]

\* A2AClientService.sendTask up to `await sendJsonRpcRequest(...)`, and
\* that up to `await axios.post(...)`
sendTask(service, agentCard, message, sessionId) ==
  Posted(service, 2, agentCard.url.s,
         sendTaskRequest(service.uuids, message, sessionId))

\* sendTask that does not look at the error of the response
sendTaskResume_nocause(agentCard, response) ==
  IF IsNullish(response) THEN Throw(TypeErrorOf(response, "result"))
  ELSE IF ~Truthy(Prop(response, "result"))
  THEN Throw(Error("Agent " \o agentCard.name.s \o " returned empty result"))
  ELSE Return(response.result)

\* A2AClientService.sendTask after `await sendJsonRpcRequest(...)`, which
\* resolves with a response in every case
sendTaskResume(agentCard, response) ==
  IF IsNullish(response) THEN Throw(TypeErrorOf(response, "result"))
  ELSE IF ~Truthy(Prop(response, "result"))
  THEN IF Truthy(Prop(response, "error"))
       THEN Throw(Error("Agent " \o agentCard.name.s \o " returned error: "
                          \o StringOf(Prop(response.error, "message"))
                          \o " (code: "
                          \o StringOf(Prop(response.error, "code")) \o ")"))
       ELSE Throw(Error("Agent " \o agentCard.name.s
                          \o " returned empty result"))
  ELSE Return(response.result)

\* getTask that raises for the code 404 as for every other
getTaskResume_raises404(agentCard, response) ==
  IF IsNullish(response) THEN Throw(TypeErrorOf(response, "error"))
  ELSE IF Truthy(Prop(response, "error"))
  THEN Throw(Error("Agent " \o agentCard.name.s \o " returned error: "
                     \o StringOf(Prop(response.error, "message"))))
  ELSE Return(Prop(response, "result"))

\* A2AClientService.getTask after `await sendJsonRpcRequest(...)`
getTaskResume(agentCard, response) ==
  IF IsNullish(response) THEN Throw(TypeErrorOf(response, "error"))
  ELSE IF Truthy(Prop(response, "error"))
  THEN IF Prop(response.error, "code") = Num(404)
       THEN Return(Null)
       ELSE Throw(Error("Agent " \o agentCard.name.s \o " returned error: "
                          \o StringOf(Prop(response.error, "message"))))
  ELSE Return(Prop(response, "result"))

\* A2AClientService.cancelTask after `await sendJsonRpcRequest(...)`
cancelTaskResume(agentCard, response) ==
  IF IsNullish(response) THEN Throw(TypeErrorOf(response, "error"))
  ELSE IF Truthy(Prop(response, "error"))
  THEN Throw(Error("Agent " \o agentCard.name.s \o " returned error: "
                     \o StringOf(Prop(response.error, "message"))))
  ELSE Return(Prop(response, "result"))

\* getAgentCard that takes every response of the server for the card
getAgentCard_anystatus(answer) ==
  IF answer.kind = "http"
  THEN IF IsNullish(answer.data) THEN Throw(TypeErrorOf(answer.data, "name"))
       ELSE Return(answer.data)
  ELSE Throw(Error(answer.message))

\* A2AClientService.getAgentCard from the end of axios.get on; validateStatus
\* accepts the status 200 alone, and the log line reads response.data.name
getAgentCard(answer) ==
  IF answer.kind = "http" /\ answer.status = 200
  THEN IF IsNullish(answer.data) THEN Throw(TypeErrorOf(answer.data, "name"))
       ELSE Return(answer.data)
  ELSE IF answer.kind = "http" THEN Throw(Error(StatusMessage(answer.status)))
  ELSE Throw(Error(answer.message))

\* A2AClientService.isAgentAccessible
isAgentAccessible(answer) ==
  IF Threw(getAgentCard(answer)) THEN Return(FALSE) ELSE Return(TRUE)

\* createDelegatedResponse that leaves the agent's name out
createDelegatedResponse_anonymous(agent, task) ==
  LET history == Prop(task, "history")
      agentMessage ==
        IF ~IsNullish(Prop(task.status, "message")) THEN task.status.message
        ELSE IF ~IsNullish(history) /\ Len(history) > 0
             THEN history[Len(history)]
             ELSE Null
  IN IF agentMessage = Null
     THEN createErrorMessage("No response received from " \o agent.name.s)
     ELSE LET agentResponse == TextOfParts(agentMessage.parts)
          IN IF agentResponse = ""
             THEN createErrorMessage("Empty response received from "
                                       \o agent.name.s)
             ELSE createResponseMessage(trim(agentResponse))

createDelegatedResponse(agent, task) ==
  LET history == Prop(task, "history")
      agentMessage ==
        IF ~IsNullish(Prop(task.status, "message")) THEN task.status.message
        ELSE IF ~IsNullish(history) /\ Len(history) > 0
             THEN history[Len(history)]
             ELSE Null
  IN IF agentMessage = Null
     THEN createErrorMessage("No response received from " \o agent.name.s)
     ELSE LET agentResponse == TextOfParts(agentMessage.parts)
          IN IF agentResponse = ""
             THEN createErrorMessage("Empty response received from "
                                       \o agent.name.s)
             ELSE createResponseMessage(agent.name.s \o " responds:\n\n"
                                          \o trim(agentResponse))

\* createTextArtifact('agent_selection', ...) of addAgentSelectionArtifact
SelectionArtifact(agent) ==
  Artifact("agent_selection",
           "Selected agent: " \o agent.name.s \o " (No description)")

(***************************************************************************)
(* OrchestratorService.processMessage, cut at its awaits.                  *)
(***************************************************************************)
\* processMessage between two awaits: the query, the agents read before the
\* LLM was asked, the answer of the LLM, the agent selected, the task read
\* by addTaskArtifact, the chain awaited and the text to answer after it
Processing(pc, query) ==
  [pc |-> pc, query |-> query, agentList |-> <<>>, completion |-> Undefined,
   target |-> Undefined, taskData |-> Null, chain |-> 0, text |-> ""]

\* processMessage resolves with a message; handleTaskSend calls
\* updateTaskStatus(COMPLETED, message), which runs up to its await
Resolves(r, message) ==
  /\ reqs' = [reqs EXCEPT ![r].pc = "send_completed_read",
                          ![r].outcome = message,
                          ![r].taskData = getTask(tasks, TaskIdOf(reqs[r]))]
  /\ pm' = [pm EXCEPT ![r] = NotProcessing]
  /\ UNCHANGED chains

\* `await this.agentRegistry.discoverAgentsWithRetry()` starts a chain
Discovers(r, query, text) ==
  /\ \E c \in Chains : chains[c].pc = "none"
  /\ LET c == CHOOSE c \in Chains :
                /\ chains[c].pc = "none"
                /\ \A d \in Chains : chains[d].pc = "none" => c <= d
     IN /\ discoverAgentsWithRetry(c, 0, 0)
        /\ pm' = [pm EXCEPT ![r] = [Processing("discovering", query) EXCEPT
                                      !.chain = c, !.text = text]]
  /\ UNCHANGED reqs

\* findBestAgentForQuery has resolved with target; with an agent,
\* addAgentSelectionArtifact runs up to `await this.getTask(taskId)` of
\* addTaskArtifact
Selected(r, state, target) ==
  IF ~Truthy(target)
  THEN Resolves(r, createErrorMessage("No suitable agent found for this query. Try asking about Vue.js core concepts or Vuex state management."))
  ELSE /\ pm' = [pm EXCEPT ![r] =
                   [state EXCEPT !.pc = "artifact", !.target = target,
                                 !.taskData =
                                   getTask(tasks, TaskIdOf(reqs[r]))]]
       /\ UNCHANGED <<reqs, chains>>

\* processMessage up to its first await, or to its end
ProcessMessage(r) ==
  LET extracted == extractTextFromMessage(reqs[r].request.params.message)
      query == extracted.value
      agentList == getAgents(agents)
  IN /\ reqs[r].pc = "processing"
     /\ pm[r] = NotProcessing
     /\ UNCHANGED <<storeVars, now, ret, reply, sent, cancelAcked, agents,
                   fallback, client>>
     /\ IF Threw(extracted)
        THEN Caught(r, extracted.thrown, tasks) /\ UNCHANGED <<pm, chains>>
        ELSE IF query = ""
        THEN Resolves(r, createErrorMessage("No text content found in the message"))
        ELSE IF includes(toLowerCase(query), "list agents")
        THEN Resolves(r, IF SkillsMapThrows(agentList)
                         THEN createErrorMessage(
                                "Error processing your request: "
                                  \o ErrorText(SkillsError))
                         ELSE createAgentListResponse(agents))
        ELSE IF includes(toLowerCase(query), "discover agents")
        THEN Discovers(r, query, "Agent discovery initiated. Please try your query again in a few seconds.")
        ELSE IF Len(agentList) = 0
        THEN Discovers(r, query, "No agents are currently available. I've initiated agent discovery. Please try again in a few seconds, or type \"list agents\" to see if any agents have been discovered.")
        ELSE LET found == findBestAgentForQuery(agents, query)
             IN IF found \in {Awaits(agentList)}
                THEN /\ pm' = [pm EXCEPT ![r] =
                                 [Processing("selecting", query) EXCEPT
                                    !.agentList = agentList]]
                     /\ UNCHANGED <<reqs, chains>>
                ELSE Selected(r, Processing("", query), found.value)

\* openai.chat.completions.create resolves or rejects; selectAgentForQuery
\* and findBestAgentForQuery run to their ends
SelectionAnswered(r, completion) ==
  /\ pm[r].pc = "selecting"
  /\ Selected(r, [pm[r] EXCEPT !.completion = completion],
              findBestAgentForQueryResume(agents, pm[r].agentList,
                                          pm[r].query, completion))
  /\ UNCHANGED <<storeVars, now, ret, reply, sent, cancelAcked, agents,
                   fallback, client>>

\* processMessage that delegates without recording the selection
ArtifactWrite_skipped(r) ==
  /\ pm[r].pc = "artifact"
  /\ pm' = [pm EXCEPT ![r].pc = "delegating"]
  /\ client' = sendTask(client, pm[r].target,
                        PlainMessage(reqs[r].request.params.message),
                        Prop(reqs[r].request.params, "sessionId"))
  /\ UNCHANGED <<storeVars, now, ret, agentVars, agents, chains, fallback>>

\* addTaskArtifact writes; delegateTask and sendTask run up to the HTTP
\* request to the selected agent
ArtifactWrite(r) ==
  LET taskId == TaskIdOf(reqs[r])
      out == addTaskArtifactResume(tasks, arrays, taskId, pm[r].taskData,
                                   SelectionArtifact(pm[r].target))
  IN /\ pm[r].pc = "artifact"
     /\ pm[r].taskData # Null
          => Len(arrays[pm[r].taskData.task.artifacts]) < MaxArtifacts
     /\ tasks' = out.tasks
     /\ arrays' = out.arrays
     /\ pm' = [pm EXCEPT ![r].pc = "delegating"]
     /\ client' = sendTask(client, pm[r].target,
                           PlainMessage(reqs[r].request.params.message),
                           Prop(reqs[r].request.params, "sessionId"))
     /\ UNCHANGED <<nextRef, now, ret, agentVars, agents, chains, fallback>>

\* processMessage without its catch block: the error of sendTask leaves it
DelegateAnswered_nocatch(r, response) ==
  LET task == sendTaskResume(pm[r].target, response)
  IN /\ pm[r].pc = "delegating"
     /\ IF Threw(task)
        THEN /\ Caught(r, task.thrown, tasks)
             /\ pm' = [pm EXCEPT ![r] = NotProcessing]
             /\ UNCHANGED chains
        ELSE Resolves(r, createDelegatedResponse(pm[r].target, task.value))
     /\ UNCHANGED <<storeVars, now, ret, reply, sent, cancelAcked, agents,
                   fallback, client>>

\* sendJsonRpcRequest resolves; sendTask returns the task or throws, and
\* processMessage answers with the agent's words or catches the error
DelegateAnswered(r, response) ==
  LET task == sendTaskResume(pm[r].target, response)
  IN /\ pm[r].pc = "delegating"
     /\ Resolves(r, IF Threw(task)
                    THEN createErrorMessage("Error processing your request: "
                                              \o ErrorText(task.thrown))
                    ELSE createDelegatedResponse(pm[r].target, task.value))
     /\ UNCHANGED <<storeVars, now, ret, reply, sent, cancelAcked, agents,
                   fallback, client>>

\* processMessage that throws after the discovery instead of answering
DiscoveryAwaited_fails(r) ==
  /\ pm[r].pc = "discovering"
  /\ \/ chains[pm[r].chain].pc \in {"scheduled", "stopped"}
     \/ chains[pm[r].chain].retryCount > 0
  /\ Caught(r, Error(pm[r].text), tasks)
  /\ pm' = [pm EXCEPT ![r] = NotProcessing]
  /\ UNCHANGED chains
  /\ UNCHANGED <<storeVars, now, ret, reply, sent, cancelAcked, agents,
                 fallback, client>>

\* the awaited invocation of discoverAgentsWithRetry has returned
DiscoveryAwaited(r) ==
  /\ pm[r].pc = "discovering"
  /\ \/ chains[pm[r].chain].pc \in {"scheduled", "stopped"}
     \/ chains[pm[r].chain].retryCount > 0
  /\ Resolves(r, createResponseMessage(pm[r].text))
  /\ UNCHANGED <<storeVars, now, ret, reply, sent, cancelAcked, agents,
                   fallback, client>>

(***************************************************************************)
(* The orchestrator serving tasks/send requests while agents register.     *)
(***************************************************************************)
\* messages of a request: a question, the two commands, the commands in
\* capitals and both in one text, a question with a Vuex keyword, a message
\* without text, and a part that is null
OrchestratorMessages ==
  {MessageBody("user", "anything"), MessageBody("user", "list agents"),
   MessageBody("user", "discover agents"),
   MessageBody("user", "Please DISCOVER AGENTS now"),
   MessageBody("user", "Discover Agents and List Agents"),
   MessageBody("user", "how do I use Vuex getters"),
   [role |-> Str("user"), parts |-> Arr(<<[type |-> "data"]>>)],
   [role |-> Str("user"), parts |-> Arr(<<Null>>)]}

OrchestratorRequests ==
  {Request(Str("2.0"), RequestId, Str("tasks/send"),
           SendParams(Str("t1"), m)) : m \in OrchestratorMessages}

\* answers of the LLM: the name of an agent, a name of no agent, nothing
Completions ==
  {Completion("B"), Completion("Vuex A2A Agent"), Completion("Zed"),
   Completion(""), CompletionFails}

\* the task a delegate answers with
RemoteTask(message) ==
  [id |-> "remote", status |-> [state |-> "completed", message |-> message]]

\* what sendJsonRpcRequest resolves with: a task with an answer, without a
\* message, with a message without text, with a text part whose text is the
\* empty string; the error response of a timeout or
\* of a transport failure, the error of the remote agent, and a response
\* with neither
DelegateFailures ==
  {[error |-> [code |-> Num(InternalError),
               message |-> Str("timeout of 10000ms exceeded")]],
   [error |-> [code |-> Num(InternalError), message |-> Str("boom")]],
   [jsonrpc |-> Str("2.0")]}

DelegateResponses ==
  {[result |-> RemoteTask(TextMessage("agent", "answer"))],
   [result |-> RemoteTask(Undefined)],
   [result |-> RemoteTask([role |-> "agent", parts |-> <<[type |-> "data"]>>])],
   [result |-> RemoteTask(TextMessage("agent", ""))]}
  \cup DelegateFailures

CardA == AgentCard("A", "http://localhost:3333/api/agents/a2a/a", "1.0.0")
CardB == AgentCard("B", "http://localhost:3333/api/agents/a2a/b", "1.0.0")
\* a card that passes isValidAgentCard with the empty string as its name
NamelessCard == AgentCard("", "http://localhost:3333/api/agents/a2a/c", "1.0.0")

\* a card that passes isValidAgentCard with null as its only skill
NullSkillCard == [CardB EXCEPT !.skills = Arr(<<Null>>)]

OrchestratorCards == {CardA, CardB, NamelessCard, NullSkillCard}

\* the steps of a discovery run; a retry is RETRY_DELAY_MS away
DiscoveryStep(c) ==
  \/ \E isAccessible \in BOOLEAN : AccessibilityAnswered(c, isAccessible)
  \/ \E answer \in EndpointAnswers(agentUrls[1])
                     \cup EndpointAnswers(agentUrls[2]) :
       CardAnswered(c, answer)
  \/ DiscoveryResolved(c)

NextOrchestrator ==
  \/ \E request \in OrchestratorRequests :
       sent < MaxQueries /\ processJsonRpcRequest(1, request)
  \/ SendWorkingRead(1)
  \/ SendWorkingWrite(1)
  \/ ProcessMessage(1)
  \/ \E completion \in Completions : SelectionAnswered(1, completion)
  \/ ArtifactWrite(1)
  \/ \E response \in DelegateResponses : DelegateAnswered(1, response)
  \/ DiscoveryAwaited(1)
  \/ SendCompletedWrite(1)
  \/ SendFailedWrite(1)
  \/ \E c \in Chains : DiscoveryStep(c)
  \/ manuallyRegisterAgents
  \/ \E card \in OrchestratorCards : CallAddAgent(card)

SpecOrchestrator == Init /\ [][NextOrchestrator]_vars

(***************************************************************************)
(* A caller of A2AClientService: sendTask, getTask, cancelTask and         *)
(* isAgentAccessible, each with what its HTTP request ends with.           *)
(***************************************************************************)
ResultBody(result) == [jsonrpc |-> Str("2.0"), result |-> result]
ErrorBody(code, message) ==
  [jsonrpc |-> Str("2.0"),
   error |-> [code |-> Num(code), message |-> Str(message)]]

\* the body Nest answers a request with that no route handles
NotFoundBody ==
  [statusCode |-> Num(404), message |-> Str("Cannot POST /api/agents/a2a/b"),
   error |-> Str("Not Found")]

ConnectionRefused == Failure("ECONNREFUSED", "connect ECONNREFUSED 127.0.0.1:3333")
ConnectionTimedOut == Failure("ETIMEDOUT", "connect ETIMEDOUT 10.0.0.1:3333")
TimeoutExceeded == Failure("ECONNABORTED", "timeout of 10000ms exceeded")

\* requests that end without a response of the server
TransportFailures ==
  {ConnectionRefused, ConnectionTimedOut, TimeoutExceeded,
   Thrown("Invalid URL")}

\* HTTP errors whose body carries a JSON-RPC error
RemoteErrors ==
  {Http(500, ErrorBody(InternalError, "boom")),
   Http(404, ErrorBody(TaskNotFound, "Task not found"))}

\* HTTP errors whose body is no JSON-RPC error: none, a page, the body of
\* Nest's exception filter
OtherHttpErrors ==
  {Http(500, Null), Http(502, Str("<html>Bad Gateway</html>")),
   Http(404, NotFoundBody)}

\* responses the server sends with status 200 or 201: a task, the result of
\* a cancel, a JSON-RPC error, a response with neither, the body null
Answered ==
  {Http(200, ResultBody(RemoteTask(TextMessage("agent", "answer")))),
   Http(201, ResultBody([id |-> "t1", canceled |-> TRUE])),
   Http(200, ErrorBody(TaskNotFound, "Task not found")),
   Http(200, ErrorBody(InternalError, "boom")),
   Http(200, ErrorBody(TaskCanceled, "Task canceled")),
   Http(200, [jsonrpc |-> Str("2.0")]),
   Http(200, Null)}

PostAnswers ==
  Answered \cup RemoteErrors \cup OtherHttpErrors \cup TransportFailures

\* what GET <url>/.well-known/agent.json ends with
GetAnswers ==
  {Http(200, VuexCard), Http(200, Null), Http(201, VuexCard),
   Http(204, Str("")), Http(404, NotFoundBody), Http(500, Null)}
    \cup TransportFailures

ClientReturned(op, agentCard, request, answer, response, outcome) ==
  [op |-> op, agent |-> agentCard, request |-> request, answer |-> answer,
   response |-> response, outcome |-> outcome]

\* A2AClientService.sendTask
ClientSendTask(agentCard, message, answer) ==
  LET request == sendTaskRequest(client.uuids, message, Undefined)
      response == sendJsonRpcRequest(request, answer)
  IN /\ Len(client.posted) < MaxCalls
     /\ client' = sendTask(client, agentCard, message, Undefined)
     /\ ret' = ClientReturned("sendTask", agentCard, request, answer,
                              response, sendTaskResume(agentCard, response))
     /\ UNCHANGED <<storeVars, now, agentVars, agents, chains, pm, fallback>>

\* A2AClientService.getTask
ClientGetTask(agentCard, taskId, answer) ==
  LET request == taskIdRequest(client.uuids, "tasks/get", taskId)
      response == sendJsonRpcRequest(request, answer)
  IN /\ Len(client.posted) < MaxCalls
     /\ client' = Posted(client, 1, agentCard.url.s, request)
     /\ ret' = ClientReturned("getTask", agentCard, request, answer,
                              response, getTaskResume(agentCard, response))
     /\ UNCHANGED <<storeVars, now, agentVars, agents, chains, pm, fallback>>

\* A2AClientService.cancelTask
ClientCancelTask(agentCard, taskId, answer) ==
  LET request == taskIdRequest(client.uuids, "tasks/cancel", taskId)
      response == sendJsonRpcRequest(request, answer)
  IN /\ Len(client.posted) < MaxCalls
     /\ client' = Posted(client, 1, agentCard.url.s, request)
     /\ ret' = ClientReturned("cancelTask", agentCard, request, answer,
                              response, cancelTaskResume(agentCard, response))
     /\ UNCHANGED <<storeVars, now, agentVars, agents, chains, pm, fallback>>

\* A2AClientService.isAgentAccessible
ClientIsAgentAccessible(agentUrl, answer) ==
  /\ ret' = [op |-> "isAgentAccessible", url |-> agentUrl,
             answer |-> answer, outcome |-> isAgentAccessible(answer)]
  /\ UNCHANGED <<storeVars, now, agentVars, orchVars>>

NextClient ==
  \/ \E answer \in PostAnswers :
       ClientSendTask(CardB, TextMessage("user", "q1"), answer)
  \/ \E taskId \in TaskIds, answer \in PostAnswers :
       ClientGetTask(CardB, taskId, answer)
  \/ \E taskId \in TaskIds, answer \in PostAnswers :
       ClientCancelTask(CardB, taskId, answer)
  \/ \E answer \in GetAnswers : ClientIsAgentAccessible(CardB.url.s, answer)

SpecClient == Init /\ [][NextClient]_vars

(***************************************************************************)
(* Properties of the task store.                                           *)
(***************************************************************************)
IsPrefix(s, t) == Len(s) <= Len(t) /\ SubSeq(t, 1, Len(s)) = s

Terminal == {"completed", "failed", "canceled"}

\* C1: createOrGetTask on an id already in the store returns the stored
\* entry and changes neither the store (state, timestamp, status message,
\* history of every task), nor the artifacts arrays, nor the set of ids,
\* whatever message, sessionId and metadata it is called with.
C1_CreateOrGetIdempotent ==
  [][\A t \in TaskIds, c \in CreateInputs :
       (tasks[t] # Undefined /\ CallCreateOrGetTask(t, c[1], c[2], c[3]))
         => /\ ret'.result = tasks[t]
            /\ tasks' = tasks
            /\ arrays' = arrays
            /\ listTaskIds(tasks') = listTaskIds(tasks)]_vars

\* a second createOrGetTask, with other arguments and at a later time, has
\* returned the task created first
C1_Witness ==
  /\ ret.op = "createOrGetTask"
  /\ now > 0
  /\ \E t \in TaskIds :
       /\ ret.taskId = t
       /\ tasks[t] # Undefined
       /\ tasks[t].task.status.timestamp < now
       /\ tasks[t].task.status.state = "working"
       /\ ret.result = tasks[t]

\* C6: a call of updateTaskStatus on a stored task, made with no other call
\* in between its read and its write, leaves the old history a prefix of the
\* new one and lengthens it by one when a message is given and by nothing
\* otherwise (for the entry's history and for the task's history).
C6_HistoryAppendOnly ==
  [][\A t \in TaskIds, st \in StoreStates, m \in {Q1, Q2, Undefined} :
       (tasks[t] # Undefined /\ CallUpdateTaskStatus(t, st, m))
         => /\ tasks'[t] # Undefined
            /\ IsPrefix(tasks[t].history, tasks'[t].history)
            /\ IsPrefix(tasks[t].task.history, tasks'[t].task.history)
            /\ Len(tasks'[t].history) =
                 Len(tasks[t].history) + (IF m = Undefined THEN 0 ELSE 1)
            /\ Len(tasks'[t].task.history) =
                 Len(tasks[t].task.history)
                   + (IF m = Undefined THEN 0 ELSE 1)]_vars

\* updateTaskStatus with a message has appended to a non-empty history
C6_Witness ==
  /\ ret.op = "updateTaskStatus"
  /\ ret.result # Null
  /\ Len(ret.result.history) = 2
  /\ ret.result.history[1] # ret.result.history[2]
  /\ tasks[ret.taskId] = ret.result

\* C7: in every state of the store a status message that is present is the
\* last element of the task's history.
C7_StatusMessageIsLastOfHistory ==
  \A t \in TaskIds :
    (tasks[t] # Undefined /\ tasks[t].task.status.message # Null)
      => /\ Len(tasks[t].history) > 0
         /\ tasks[t].history[Len(tasks[t].history)]
              = tasks[t].task.status.message
         /\ Len(tasks[t].task.history) > 0
         /\ tasks[t].task.history[Len(tasks[t].task.history)]
              = tasks[t].task.status.message

\* a task created with message Q1 (the one carrying session s1) and then
\* given a new state without a message still shows Q1 as status message;
\* one artifact has been added as well
C7_Witness ==
  \E t \in TaskIds :
    /\ tasks[t] # Undefined
    /\ tasks[t].task.sessionId = [session |-> "s1"]
    /\ tasks[t].history = <<Q1>>
    /\ tasks[t].task.status.state = "canceled"
    /\ tasks[t].task.status.message = Q1
    /\ Len(arrays[tasks[t].task.artifacts]) = 1

(***************************************************************************)
(* Properties of the agent protocol layer.                                 *)
(***************************************************************************)
StateOf(t) == tasks[t].task.status.state

CancelRequest(t) ==
  Request(Str("2.0"), RequestId, Str("tasks/cancel"), IdParams(Str(t)))

SendRequest(t) ==
  Request(Str("2.0"), RequestId, Str("tasks/send"),
          SendParams(Str(t), MessageBody("user", "q1")))

\* C2: a task that has reached completed, failed or canceled keeps that
\* state in every later step, whatever requests the agent serves.
C2_TerminalStateIsKept ==
  [][\A t \in TaskIds :
       (tasks[t] # Undefined /\ StateOf(t) \in Terminal)
         => (tasks'[t] # Undefined
             /\ tasks'[t].task.status.state = StateOf(t))]_vars

\* C3: a tasks/cancel request for a task in a final state is answered
\* {id, canceled:false} and changes neither the store nor the artifacts.
C3_CancelOfFinalTask ==
  [][\A r \in Slots, t \in TaskIds :
       (/\ tasks[t] # Undefined
        /\ StateOf(t) \in Terminal
        /\ processJsonRpcRequest(r, CancelRequest(t)))
         => /\ reply'.handler = "handleTaskCancel"
            /\ reply'.response =
                 ResultResponse(RequestId,
                                [id |-> Str(t), canceled |-> FALSE])
            /\ reqs'[r] = Idle
            /\ tasks' = tasks
            /\ arrays' = arrays]_vars

\* a cancel of a canceled task has been answered canceled:false
C3_Witness ==
  /\ reply.n = 1
  /\ reply.handler = "handleTaskCancel"
  /\ reply.response.result.canceled = FALSE
  /\ \E t \in TaskIds :
       /\ reply.response.result.id = Str(t)
       /\ tasks[t] # Undefined
       /\ StateOf(t) = "canceled"
       /\ \A r \in Slots : reqs[r] = Idle

\* C4: a tasks/cancel request for an id the store does not hold is answered
\* canceled:false and creates nothing; for a task in a state that is not
\* final the handler goes on to updateTaskStatus, whose write makes the
\* stored state canceled and is answered canceled:true; and canceled:true is
\* only ever answered by such a write.
C4_CancelOutcome ==
  [][/\ \A r \in Slots, t \in TaskIds :
          (tasks[t] = Undefined /\ processJsonRpcRequest(r, CancelRequest(t)))
            => /\ reply'.response =
                    ResultResponse(RequestId,
                                   [id |-> Str(t), canceled |-> FALSE])
               /\ tasks' = tasks
               /\ reqs'[r] = Idle
     /\ \A r \in Slots, t \in TaskIds :
          (/\ tasks[t] # Undefined
           /\ StateOf(t) \notin Terminal
           /\ processJsonRpcRequest(r, CancelRequest(t)))
            => /\ reqs'[r].pc = "cancel_checked"
               /\ reply' = reply
               /\ tasks' = tasks
     /\ \A r \in Slots :
          (reqs[r].pc \in {"cancel_checked", "cancel_read"}
             /\ reqs'[r].pc = "idle")
            => /\ reqs[r].pc = "cancel_read"
               /\ reply'.response =
                    ResultResponse(RequestId,
                                   [id |-> reqs[r].request.params.id,
                                    canceled |-> TRUE])
               /\ tasks'[TaskIdOf(reqs[r])] # Undefined
               /\ tasks'[TaskIdOf(reqs[r])].task.status.state = "canceled"
     /\ (/\ reply'.n # reply.n
         /\ reply'.handler = "handleTaskCancel"
         /\ reply'.response.result.canceled)
            => \E r \in Slots :
                 /\ CancelWrite(r)
                 /\ tasks'[TaskIdOf(reqs[r])].task.status.state = "canceled"
    ]_vars

\* a cancel of a working task has been answered canceled:true and the task
\* is canceled
C4_Witness ==
  /\ reply.n = 1
  /\ reply.handler = "handleTaskCancel"
  /\ reply.response.result.canceled = TRUE
  /\ \E t \in TaskIds :
       /\ reply.response.result.id = Str(t)
       /\ tasks[t] # Undefined
       /\ StateOf(t) = "canceled"
       /\ tasks[t].history = <<TextMessage("user", "q1"), ProcessingMessage>>

\* C5: once a cancel has been answered canceled:true for a task whose
\* processMessage was running, the task is in state canceled for good.
C5_CancelIsFinal ==
  \A t \in cancelAcked : tasks[t] # Undefined /\ StateOf(t) = "canceled"

SendPcs ==
  {"send_created", "send_working_read", "processing", "send_completed_read",
   "send_failed_read"}

\* processMessage has been invoked
Invoked == {"processing", "send_completed_read", "send_failed_read"}

\* C8: a tasks/send with a new id and no other tasks/send or tasks/cancel on
\* that id while it runs: the task is stored in state submitted with the
\* user message; its state then only goes submitted -> working -> completed;
\* processMessage is invoked only once the task is stored as working with
\* history [user message, processing message]; and when processMessage
\* returned M the stored history is [user message, processing message, M],
\* the status message is M and the answer carries the completed task.
C8_SendLifecycle ==
  [][/\ \A r \in Slots, t \in TaskIds :
          (tasks[t] = Undefined /\ processJsonRpcRequest(r, SendRequest(t)))
            => /\ reqs'[r].pc = "send_created"
               /\ reqs'[r].alone
               /\ tasks'[t].task.status.state = "submitted"
               /\ tasks'[t].history = <<Q1>>
     /\ \A r \in Slots :
          (reqs[r].pc \in SendPcs /\ reqs[r].alone
             /\ reqs'[r].pc \in SendPcs /\ reqs'[r].alone)
            => LET t == TaskIdOf(reqs[r])
               IN /\ <<StateOf(t), tasks'[t].task.status.state>> \in
                       {<<"submitted", "submitted">>,
                        <<"submitted", "working">>,
                        <<"working", "working">>}
                  /\ reqs'[r].pc \in Invoked
                       => /\ tasks'[t].task.status.state = "working"
                          /\ tasks'[t].task.status.message
                               = TextMessage("agent",
                                             "Processing your request...")
                          /\ tasks'[t].history
                               = <<Q1, TextMessage("agent",
                                         "Processing your request...")>>
     /\ \A r \in Slots :
          (reqs[r].pc = "send_completed_read" /\ reqs[r].alone
             /\ reqs'[r].pc = "idle")
            => LET t == TaskIdOf(reqs[r])
                   M == reqs[r].outcome
               IN /\ StateOf(t) = "working"
                  /\ tasks'[t].task.status.state = "completed"
                  /\ tasks'[t].task.status.message = M
                  /\ tasks'[t].history
                       = <<Q1, TextMessage("agent",
                                 "Processing your request..."), M>>
                  /\ tasks'[t].task.history = tasks'[t].history
                  /\ reply'.response
                       = ResultResponse(RequestId, tasks'[t].task)
    ]_vars

\* an undisturbed tasks/send has been answered with the completed task
C8_Witness ==
  /\ reply.n = 1
  /\ reply.handler = "handleTaskSend"
  /\ reply.alone
  /\ reply.outcome \in Answers
  /\ "result" \in DOMAIN reply.response
  /\ reply.response.result.status.state = "completed"
  /\ Len(reply.response.result.history) = 3
  /\ tasks[reply.response.result.id].task = reply.response.result

\* C9: when processMessage throws an Error with text E, the write of the
\* catch block stores the task as failed with the status message
\* 'Task failed: E', which is also the last element of the history then, the
\* handler throws the same error again and the request is answered with a
\* JSON-RPC error of code -32603 and no result.
C9_FailureIsRecordedAndSurfaced ==
  [][/\ \A r \in Slots, e \in Errors :
          ProcessMessageThrows(r, e)
            => (reqs'[r].pc = "send_failed_read" /\ reqs'[r].outcome = e)
     /\ \A r \in Slots :
          (reqs[r].pc = "send_failed_read" /\ reqs[r].outcome.thrown = "Error"
             /\ reqs'[r].pc # "send_failed_read")
            => LET t == TaskIdOf(reqs[r])
                   E == reqs[r].outcome.message
                   F == TextMessage("agent", "Task failed: " \o E)
               IN /\ reqs'[r] = Idle
                  /\ tasks'[t].task.status.state = "failed"
                  /\ tasks'[t].task.status.message = F
                  /\ tasks'[t].history = Append(reqs[r].taskData.history, F)
                  /\ tasks'[t].task.history = tasks'[t].history
                  /\ reqs[r].alone =>
                       tasks'[t].history
                         = <<Q1, TextMessage("agent",
                                   "Processing your request..."), F>>
                  /\ reply'.handler = "handleTaskSend"
                  /\ reply'.outcome = reqs[r].outcome
                  /\ DOMAIN reply'.response = {"jsonrpc", "id", "error"}
                  /\ reply'.response.id = reqs[r].request.id
                  /\ reply'.response.error.code = -32603
                  /\ reply'.response.error.message = E
    ]_vars

\* a tasks/send whose processMessage threw Error("boom") has been answered
\* with an error and the task is failed
C9_Witness ==
  /\ reply.n = 1
  /\ reply.handler = "handleTaskSend"
  /\ reply.outcome = Error("boom")
  /\ "error" \in DOMAIN reply.response
  /\ \E t \in TaskIds :
       /\ tasks[t] # Undefined
       /\ StateOf(t) = "failed"
       /\ tasks[t].task.status.message
            = TextMessage("agent", "Task failed: boom")

(***************************************************************************)
(* Properties of the controller.                                           *)
(***************************************************************************)
KnownMethods == {Str("tasks/send"), Str("tasks/get"), Str("tasks/cancel")}

\* a body with jsonrpc other than '2.0', a method that is no string, or no id
BadEnvelope(request) ==
  \/ IsNullish(request)
  \/ Prop(request, "jsonrpc") # Str("2.0")
  \/ TypeOf(Prop(request, "method")) # "string"
  \/ Prop(request, "id") = Undefined

\* a body with jsonrpc '2.0', a string method and an id that is a non-empty
\* string or a number other than 0
WellFormed(request) ==
  /\ ~BadEnvelope(request)
  /\ request.id \notin {Str(""), Num(0), Null}

\* params of tasks/send without a string id, or without a message that has
\* a string role and a non-empty array of parts
BadSendParams(params) ==
  \/ IsNullish(params)
  \/ TypeOf(Prop(params, "id")) # "string"
  \/ IsNullish(Prop(params, "message"))
  \/ TypeOf(Prop(params.message, "role")) # "string"
  \/ ~IsArray(Prop(params.message, "parts"))
  \/ params.message.parts.items = <<>>

\* params without an id
NoParamId(params) == IsNullish(params) \/ IsNullish(Prop(params, "id"))

\* the request is answered with an error of this code and nothing else
\* happens: no handler is called, no task is created or changed
Rejected(code) ==
  /\ reply'.n # reply.n
  /\ DOMAIN reply'.response = {"jsonrpc", "id", "error"}
  /\ reply'.response.error.code = code
  /\ reply'.handler = "none"
  /\ tasks' = tasks
  /\ arrays' = arrays
  /\ nextRef' = nextRef
  /\ reqs' = reqs
  /\ sent' = sent

\* C10: a malformed envelope is answered InvalidRequest (-32600), an unknown
\* method of a well-formed request MethodNotFound (-32601), tasks/send with
\* bad params and tasks/get or tasks/cancel without params.id InvalidParams
\* (-32602); in each case no handler of the agent is called and the store
\* is left as it was.
C10_ValidationBeforeDispatch ==
  [][\A request \in ControllerRequests :
       processJsonRpcRequest(1, request)
         => /\ BadEnvelope(request) => Rejected(-32600)
            /\ (WellFormed(request) /\ request.method \notin KnownMethods)
                 => Rejected(-32601)
            /\ (WellFormed(request) /\ request.method = Str("tasks/send")
                  /\ BadSendParams(request.params))
                 => Rejected(-32602)
            /\ (WellFormed(request)
                  /\ request.method \in {Str("tasks/get"), Str("tasks/cancel")}
                  /\ NoParamId(request.params))
                 => Rejected(-32602)]_vars

\* a request has been rejected with InvalidParams while the store holds a
\* completed task
C10_Witness ==
  /\ reply.n = 0
  /\ "handler" \in DOMAIN reply
  /\ reply.handler = "none"
  /\ reply.response.error.code = -32602
  /\ tasks["t1"] # Undefined
  /\ StateOf("t1") = "completed"

\* the id a response to this request body has to carry
ExpectedId(request) ==
  IF WellFormed(request) THEN request.id
  ELSE IF TypeOf(Field(request, "id")) = "string" THEN request.id
  ELSE Str("0")

\* the answer is a JSON-RPC response to the request: jsonrpc '2.0', the
\* request's id, and either a result or an error with a code and a message
Responds(answer, request) ==
  /\ "response" \in DOMAIN answer
  /\ LET response == answer.response
     IN /\ DOMAIN response \in {{"jsonrpc", "id", "result"},
                                {"jsonrpc", "id", "error"}}
        /\ response.jsonrpc = "2.0"
        /\ response.id = ExpectedId(request)
        /\ "result" \in DOMAIN response => ~IsNullish(response.result)
        /\ "error" \in DOMAIN response
             => /\ response.error.code \in Int
                /\ response.error.message \in STRING

\* C11: every request body that arrives is either answered at once or
\* handed to a handler, and every handler that ends, whether processMessage
\* returned or threw, ends with an answer; each answer is a response with
\* jsonrpc '2.0', exactly one of result and error, and the id of the request
\* ('0' when the request is rejected as invalid and its id is no string).
C11_AlwaysAWellFormedResponse ==
  [][/\ \A request \in ControllerRequests :
          processJsonRpcRequest(1, request)
            => \/ /\ reqs'[1] = Idle
                  /\ reply'.n # reply.n
                  /\ Responds(reply', request)
               \/ /\ reqs'[1].pc \in {"send_created", "cancel_checked"}
                  /\ reqs'[1].request = request
                  /\ reply' = reply
     /\ \A r \in Slots :
          (reqs[r].pc # "idle" /\ reqs'[r].pc = "idle")
            => /\ reply'.n # reply.n
               /\ Responds(reply', reqs[r].request)
     /\ \A r \in Slots :
          (reqs[r].pc # "idle" /\ reqs'[r].pc # "idle")
            => (reply' = reply /\ reqs'[r].request = reqs[r].request)
    ]_vars

\* a body without an id has been answered with id '0' after a tasks/send
\* whose processMessage threw had been answered
C11_Witness ==
  /\ "response" \in DOMAIN reply
  /\ reply.response.id = Str("0")
  /\ reply.response.error.code = -32600
  /\ tasks["t1"] # Undefined
  /\ StateOf("t1") = "failed"

GetRequest(t) ==
  Request(Str("2.0"), RequestId, Str("tasks/get"), IdParams(Str(t)))

\* C12: a tasks/get request changes neither the store nor the artifacts nor
\* the requests in flight; for an id in the store its answer is the result
\* holding the task stored at that moment, and for an id not in the store it
\* is an error of code 404 and no task is created.
C12_GetIsPureLookup ==
  [][\A r \in Slots, t \in TaskIds :
       processJsonRpcRequest(r, GetRequest(t))
         => /\ tasks' = tasks
            /\ arrays' = arrays
            /\ nextRef' = nextRef
            /\ reqs' = reqs
            /\ reply'.handler = "handleTaskGet"
            /\ tasks[t] # Undefined
                 => reply'.response = ResultResponse(RequestId, tasks[t].task)
            /\ tasks[t] = Undefined
                 => /\ DOMAIN reply'.response = {"jsonrpc", "id", "error"}
                    /\ reply'.response.id = RequestId
                    /\ reply'.response.error.code = 404]_vars

\* a tasks/get has been answered with a working task while the tasks/send
\* on it was inside processMessage
C12_Witness ==
  /\ "handler" \in DOMAIN reply
  /\ reply.handler = "handleTaskGet"
  /\ "result" \in DOMAIN reply.response
  /\ reply.response.result.status.state = "working"
  /\ \E r \in Slots :
       /\ reqs[r].pc = "processing"
       /\ tasks[TaskIdOf(reqs[r])].task = reply.response.result

(***************************************************************************)
(* Properties of the agent registry.                                       *)
(***************************************************************************)
\* C13: one invocation of discoverAgentsWithRetry(0) executes discoverAgents
\* at most MAX_RETRIES + 1 = 6 times, a chain that has stopped starts and
\* schedules nothing more, and every chain that was started eventually stops,
\* also when no endpoint is ever reachable and the registry stays empty.
C13_RetryChainIsBounded ==
  /\ [](\A c \in Chains :
          chains[c].pc # "none" => chains[c].executions <= MAX_RETRIES + 1)
  /\ [][\A c \in Chains :
          chains[c].pc = "stopped" => chains'[c] = chains[c]]_vars
  /\ \A c \in Chains : (chains[c].pc # "none") ~> (chains[c].pc = "stopped")

\* a chain that found nothing at any attempt has stopped after six executions
C13_Witness ==
  /\ chains[1].pc = "stopped"
  /\ chains[1].executions = MAX_RETRIES + 1
  /\ chains[1].retryCount = MAX_RETRIES
  /\ agents = <<>>

\* the cards of Cards with string name, url and version, a capabilities
\* object and a non-empty skills array
ValidCards == {VueCoreCard, VuexCard, VuexCard2}

\* C14: addAgent with a card that fails the validity predicate throws and
\* leaves the registry exactly as it was; with a valid card it throws nothing
\* and afterwards the registry holds the card under its name, every other
\* entry being as before.
C14_AddAgentValidates ==
  [][\A card \in Cards :
       CallAddAgent(card) =>
         IF card \in ValidCards
         THEN /\ ret'.result = Undefined
              /\ MapValue(agents', card.name.s) = card
              /\ \A i \in 1..Len(agents) :
                   agents[i].key # card.name.s =>
                     MapValue(agents', agents[i].key) = agents[i].value
              /\ Len(agents') =
                   IF MapHas(agents, card.name.s) THEN Len(agents)
                   ELSE Len(agents) + 1
         ELSE /\ ret'.result = Error("Invalid agent card")
              /\ agents' = agents]_vars

\* an invalid card was refused while two agents were registered
C14_Witness ==
  /\ ret = RegistryReturned("addAgent", Error("Invalid agent card"))
  /\ Len(agents) = 2

\* the step registers `card`: by addAgent, by a discovery run, or as one of
\* the two cards of a manual registration, at start-up or by the endpoint
Registers(card) ==
  \/ CallAddAgent(card)
  \/ \E c \in Chains : CardAnswered(c, card)
  \/ /\ \/ manuallyRegisterAgents
        \/ registerAgents
        \/ FallbackTimerFires /\ Len(agents) = 0
     /\ card \in {VueCoreCard, VuexCard}

CardNames == {card.name.s : card \in ValidCards}

\* C15: the registry always holds at most one card per name, each under a
\* key equal to its name, and only valid cards; a step that registers a card
\* leaves that card stored under its name, and the card stored under a name
\* changes only in a step that registers a card of that name (last write
\* wins).
C15_RegistryIndexedByName ==
  /\ [](\A i \in 1..Len(agents) :
          /\ agents[i].value \in ValidCards
          /\ agents[i].key = agents[i].value.name.s
          /\ \A j \in 1..Len(agents) : agents[j].key = agents[i].key => j = i)
  /\ [][/\ \A card \in ValidCards :
             Registers(card) => MapValue(agents', card.name.s) = card
        /\ \A name \in CardNames :
             MapValue(agents', name) # MapValue(agents, name) =>
               \E card \in ValidCards : card.name.s = name /\ Registers(card)
        /\ \A i \in 1..Len(agents) : MapHas(agents', agents[i].key)]_vars

\* a manual registration has replaced the card of an agent that was
\* registered before it: the Vuex agent kept its first place in the Map
C15_Witness ==
  /\ ret.op = "manuallyRegisterAgents"
  /\ agents = <<[key |-> "Vuex A2A Agent", value |-> VuexCard],
                [key |-> "Vue Core A2A Agent", value |-> VueCoreCard]>>

\* findBestAgentForQuery called on the registry as it is, up to the point
\* where it returns or asks the LLM
CallFindBestAgentForQuery(query) ==
  /\ ret' = [op |-> "findBestAgentForQuery", query |-> query,
             result |-> findBestAgentForQuery(agents, query)]
  /\ UNCHANGED <<storeVars, now, agentVars, orchVars>>

\* queries routed over the registries that registrations build
NextRouting ==
  \/ \E card \in Cards \cup {CardA} : CallAddAgent(card)
  \/ manuallyRegisterAgents
  \/ \E query \in Queries : CallFindAgentForQuery(query)
  \/ \E query \in Queries : CallFindBestAgentForQuery(query)

SpecRouting == Init /\ [][NextRouting]_vars

\* the queries of Queries that, lower-cased, contain 'vuex', 'state
\* management', 'store', or 'state' together with 'manage'
VuexQueries ==
  {"how do I use Vuex getters", "How do I manage state in a Vue application?",
   "STATE MANAGEMENT", "Restore the page", "real estate manager"}

RoutedName(query) ==
  IF query \in VuexQueries THEN "Vuex A2A Agent" ELSE "Vue Core A2A Agent"

\* C16: findAgentForQuery returns the registry entry named 'Vuex A2A Agent'
\* for a query that contains one of the Vuex keywords in any letter case and
\* the entry named 'Vue Core A2A Agent' for every other query; it returns
\* undefined when no entry has that name, never another agent, and it leaves
\* the registry alone.
C16_KeywordRouting ==
  [][\A query \in Queries :
       CallFindAgentForQuery(query) =>
         /\ agents' = agents
         /\ IF \E i \in 1..Len(agents) : agents[i].key = RoutedName(query)
            THEN /\ ret'.result \in {agents[i].value : i \in 1..Len(agents)}
                 /\ ret'.result.name = Str(RoutedName(query))
            ELSE ret'.result = Undefined]_vars

\* an upper-case query was routed to the Vuex agent while both agents were
\* registered, the Vue Core agent first
C16_Witness ==
  /\ ret = Routed("STATE MANAGEMENT", VuexCard2)
  /\ Len(agents) = 3
  /\ agents[1].key = "A"
  /\ agents[2].key = "Vue Core A2A Agent"

(***************************************************************************)
(* Properties of the orchestrator.                                         *)
(***************************************************************************)
NoSuitableAgent ==
  createErrorMessage("No suitable agent found for this query. Try asking about Vue.js core concepts or Vuex state management.")

\* the step ends findBestAgentForQuery: with an agent, processMessage goes
\* on to addAgentSelectionArtifact; with undefined it returns the error
\* message
FindBestResolves(r) ==
  /\ ProcessMessage(r) \/ \E completion \in Completions :
                            SelectionAnswered(r, completion)
  /\ \/ pm'[r].pc = "artifact"
     \/ reqs'[r].pc = "send_completed_read"
          /\ reqs'[r].outcome = NoSuitableAgent

\* C17: whenever at least one agent is registered, findBestAgentForQuery
\* returns the card of a registered agent, never undefined, for every query
\* and every outcome of the LLM: the name of a registered agent, a name of
\* no registered agent, an empty answer, or an error.
C17_AlwaysSomeAgent ==
  [][\A r \in Slots :
       (FindBestResolves(r) /\ Len(agents) >= 1)
         => /\ pm'[r].pc = "artifact"
            /\ \E i \in 1..Len(agents) : agents[i].value = pm'[r].target]_vars

\* the registry holds the agents A and B and no other
AgentsAB(agentList) ==
  agentList \in {<<CardA, CardB>>, <<CardB, CardA>>}

Answer18 == [result |-> RemoteTask(TextMessage("agent", "answer"))]

\* C18: with the agents A and B registered and the LLM answering 'B',
\* findBestAgentForQuery returns B's card for every query; the task is sent
\* to B's url; and when B's task has a status message with the one text
\* part 'answer', processMessage returns an agent message with the single
\* text part 'B responds:', a blank line, 'answer'.
C18_DelegatesToTheSelectedAgent ==
  /\ [][\A r \in Slots :
          (SelectionAnswered(r, Completion("B")) /\ AgentsAB(pm[r].agentList))
            => /\ pm'[r].pc = "artifact"
               /\ pm'[r].target.name = Str("B")
               /\ \E i \in 1..Len(agents) :
                    agents[i].value = pm'[r].target]_vars
  /\ [](\A r \in Slots :
          (/\ pm[r].pc \in {"artifact", "delegating"}
           /\ pm[r].completion = Completion("B")
           /\ AgentsAB(pm[r].agentList))
            => pm[r].target.url = CardB.url /\ pm[r].target.url # CardA.url)
  /\ [][\A r \in Slots :
          (/\ DelegateAnswered(r, Answer18)
           /\ pm[r].completion = Completion("B")
           /\ AgentsAB(pm[r].agentList))
            => /\ reqs'[r].pc = "send_completed_read"
               /\ reqs'[r].outcome =
                    [role |-> "agent",
                     parts |-> <<[type |-> "text",
                                  text |-> "B responds:\n\nanswer"]>>]]_vars

\* the request was answered with B's words while A and B were registered,
\* A first
C18_Witness ==
  /\ reply.n # 0
  /\ reply.handler = "handleTaskSend"
  /\ reply.outcome = TextMessage("agent", "B responds:\n\nanswer")
  /\ agents = <<[key |-> "A", value |-> CardA], [key |-> "B", value |-> CardB]>>

\* the words sendTask throws for a response without a result
FailureText(name, failure) ==
  IF "error" \in DOMAIN failure
  THEN "Agent " \o name \o " returned error: " \o failure.error.message.s
         \o " (code: -32603)"
  ELSE "Agent " \o name \o " returned empty result"

\* the message processMessage returns for a delegation that failed
ReportOf(name, failure) ==
  [role |-> "agent",
   parts |-> <<[type |-> "text",
                text |-> "Error: Error processing your request: "
                           \o FailureText(name, failure)]>>]

Reports ==
  {ReportOf(name, failure) :
     name \in {"A", "B", "", "Vue Core A2A Agent", "Vuex A2A Agent"},
     failure \in DelegateFailures}

AllIdle == \A r \in Slots : reqs[r] = Idle

\* C19 as stated: when the delegation to the selected agent has failed, the
\* orchestrator's own task for the request ends in state failed.
C19_FailedDelegationFailsTheTask ==
  (/\ AllIdle
   /\ reply.n # 0
   /\ reply.handler = "handleTaskSend"
   /\ reply.outcome \in Reports)
    => tasks["t1"] # Undefined /\ StateOf("t1") = "failed"

\* C19 as the code has it: when the delegation to the selected agent fails
\* (a timeout or transport failure, an error of the remote agent, a response
\* without result), processMessage does not delegate again and returns the
\* agent message 'Error: Error processing your request: ' followed by the
\* error; the orchestrator's task is then stored and answered as completed
\* with that message as its status message.
C19_FailedDelegationIsReported ==
  /\ [][\A r \in Slots, failure \in DelegateFailures :
          DelegateAnswered(r, failure)
            => /\ reqs'[r].pc = "send_completed_read"
               /\ reqs'[r].outcome = ReportOf(pm[r].target.name.s, failure)
               /\ pm'[r] = NotProcessing]_vars
  /\ [][\A r \in Slots :
          (SendCompletedWrite(r) /\ reqs[r].outcome \in Reports)
            => /\ reply'.n # reply.n
               /\ DOMAIN reply'.response = {"jsonrpc", "id", "result"}
               /\ reply'.response.result.status.state = "completed"
               /\ reply'.response.result.status.message = reqs[r].outcome
               /\ tasks'[TaskIdOf(reqs[r])].task.status.state = "completed"
               /\ tasks'[TaskIdOf(reqs[r])].task.status.message
                    = reqs[r].outcome]_vars

\* a delegation to B timed out and the task of the request is completed
C19_Witness ==
  /\ AllIdle
  /\ reply.n # 0
  /\ reply.outcome =
       ReportOf("B", [error |-> [code |-> Num(InternalError),
                                 message |-> Str("timeout of 10000ms exceeded")]])
  /\ StateOf("t1") = "completed"

\* every part of the message of the request is an object
TypedParts(request) ==
  \A i \in 1..Len(request.params.message.parts.items) :
    ~IsNullish(request.params.message.parts.items[i])

\* an agent message with a single text part
IsAgentText(message) ==
  /\ DOMAIN message = {"role", "parts"}
  /\ message.role = "agent"
  /\ Len(message.parts) = 1
  /\ message.parts[1].type = "text"
  /\ message.parts[1].text \in STRING

AddressedTo(r) == IF r = 1 THEN "vue-core" ELSE "vuex"

\* the message of the tasks/send requests addressed to an agent
QuestionTo(agent) == IF agent = "vue-core" THEN "q1" ELSE "q2"

PlatformRequests(agent) ==
  {Request(Str("2.0"), RequestId, Str("tasks/send"),
           SendParams(Str(t), MessageBody("user", QuestionTo(agent)))) :
     t \in TaskIds}
  \cup {Request(Str("2.0"), RequestId, Str(m), IdParams(Str(t))) :
          m \in {"tasks/get", "tasks/cancel"}, t \in TaskIds}

\* a step of the agent that handles slot r
AgentStep(r) ==
  \/ \E request \in PlatformRequests(AddressedTo(r)) :
       processJsonRpcRequest(r, request)
  \/ SendStep(r)
  \/ CancelStep(r)

NextPlatform == \E r \in Slots : AgentStep(r)

SpecPlatform == Init /\ [][NextPlatform]_vars

\* the agent whose tasks/send created the task stored under t
CreatedBy(t) ==
  IF tasks[t].history[1] = TextMessage("user", "q1")
  THEN "vue-core" ELSE "vuex"

\* the task stored under t was created by another agent than the one that
\* handles slot r
Foreign(t, r) == tasks[t] # Undefined /\ CreatedBy(t) # AddressedTo(r)

\* C21: a task created by tasks/send on one agent is not visible to
\* tasks/get addressed to another agent with the same id (the answer is
\* Task not found), and no step of a request addressed to another agent
\* changes it.
C21_StoresArePerAgent ==
  /\ [][\A r \in Slots, t \in TaskIds :
          (Foreign(t, r) /\ processJsonRpcRequest(r, GetRequest(t)))
            => reply'.response =
                 createErrorResponse(TaskNotFound, "Task not found: " \o t,
                                     RequestId)]_vars
  /\ [][\A r \in Slots, t \in TaskIds :
          (Foreign(t, r) /\ AgentStep(r)) => tasks'[t] = tasks[t]]_vars

SpecialistNames == {"Vue Core A2A Agent", "Vuex A2A Agent"}

HasSpecialists(registry) == \A name \in SpecialistNames : MapHas(registry, name)

\* C22: after manuallyRegisterAgents, called at start-up or through the
\* register-agents endpoint, the registry holds cards named 'Vue Core A2A
\* Agent' and 'Vuex A2A Agent'; no step takes them out again, and a call
\* that finds both leaves the number of registered agents as it is; the
\* count the endpoint reports is the length of the agents array it returns,
\* which is the list of the registered cards.
C22_ManualRegistration ==
  /\ [][(manuallyRegisterAgents \/ registerAgents)
          => /\ HasSpecialists(agents')
             /\ getAgentByName(agents', "Vue Core A2A Agent") = VueCoreCard
             /\ getAgentByName(agents', "Vuex A2A Agent") = VuexCard
             /\ HasSpecialists(agents) => Len(agents') = Len(agents)]_vars
  /\ [][HasSpecialists(agents) => HasSpecialists(agents')]_vars
  /\ [][registerAgents
          => /\ ret'.result.count = Len(ret'.result.agents)
             /\ ret'.result.agents = getAgents(agents')
             /\ ret'.result.success]_vars

\* the endpoint was called with the Vuex agent of version 2.0.0 registered
\* first: two agents are reported, the Vuex agent still the first
C22_Witness ==
  /\ ret.op = "registerAgents"
  /\ ret.result.count = 2
  /\ ret.result.agents = <<VuexCard, VueCoreCard>>
  /\ agents[1].key = "Vuex A2A Agent"

\* the outcomes of the LLM that are failures of the selection: the call
\* rejects, or the answer is empty
FailedCompletions == {CompletionFails, Completion("")}

\* what the keyword fallback yields: the agent findAgentForQuery returns,
\* and the first registered agent when it returns undefined
KeywordOrFirst(registry, query) ==
  IF findAgentForQuery(registry, query) # Undefined
  THEN findAgentForQuery(registry, query)
  ELSE getAgents(registry)[1]

\* C23: with two or more agents registered, when the LLM selection fails
\* (the collaborator raises or answers with nothing), findBestAgentForQuery
\* returns what the registry's findAgentForQuery(query) returns whenever
\* that is defined, and the first registered agent only when it is not.
C23_FallsBackToKeywords ==
  [][\A r \in Slots, completion \in FailedCompletions :
       SelectionAnswered(r, completion)
         => /\ pm'[r].pc = "artifact"
            /\ pm'[r].target = KeywordOrFirst(agents, pm[r].query)]_vars

\* C24: findBestAgentForQuery returns undefined when no agent is registered;
\* when exactly one agent is registered it returns that agent, for every
\* query, and returns it without asking the LLM.
C24_NoneOrTheOnlyAgent ==
  [][\A query \in Queries :
       CallFindBestAgentForQuery(query)
         => /\ Len(agents) = 0 => ret'.result = Return(Undefined)
            /\ Len(agents) = 1 => ret'.result = Return(agents[1].value)]_vars

\* the only registered agent, A, was returned for a question about Vuex
C24_Witness ==
  /\ ret = [op |-> "findBestAgentForQuery",
            query |-> "how do I use Vuex getters", result |-> Return(CardA)]
  /\ Len(agents) = 1

\* the attempts a chain has made
Attempts(chain) == IF chain.pc = "none" THEN 0 ELSE chain.executions

\* C25: within one chain of discoverAgentsWithRetry, a further attempt is
\* scheduled after an attempt if and only if the registry is empty when the
\* attempt has ended and retryCount < MAX_RETRIES; an attempt starts only
\* when the chain is invoked or when a scheduled retry fires, with
\* retryCount one higher; a chain whose attempt ended with agents in the
\* registry, found by it or registered meanwhile, makes no further attempt.
C25_RetryOnlyWhileEmpty ==
  /\ [][\A c \in Chains :
          DiscoveryResolved(c)
            => /\ chains'[c].pc \in {"scheduled", "stopped"}
               /\ chains'[c].pc = "scheduled"
                    <=> (Len(agents) = 0
                           /\ chains[c].retryCount < MAX_RETRIES)
               /\ chains'[c].executions = chains[c].executions]_vars
  /\ [][\A c \in Chains :
          Attempts(chains'[c]) # Attempts(chains[c])
            => /\ chains[c].pc \in {"none", "scheduled"}
               /\ Attempts(chains'[c]) = Attempts(chains[c]) + 1
               /\ chains[c].pc = "scheduled"
                    => chains'[c].retryCount = chains[c].retryCount + 1]_vars
  /\ [][\A c \in Chains :
          chains[c].pc = "stopped" => chains'[c] = chains[c]]_vars

\* the second attempt of a chain found no agent, addAgent registered one
\* meanwhile, and the chain stopped with four retries unused
C25_Witness ==
  /\ chains[1].pc = "stopped"
  /\ chains[1].executions = 2
  /\ chains[1].retryCount = 1
  /\ agents = <<[key |-> "Vuex A2A Agent", value |-> VuexCard2]>>

\* the answers of the card fetch that register nothing: no answer, or a
\* body that is no valid card
Unusable(answer) == answer = NoAnswer \/ ~isValidAgentCard(answer)

AllAnswers == EndpointAnswers(agentUrls[1]) \cup EndpointAnswers(agentUrls[2])

\* C26: discoverAgents probes every endpoint, whatever the probes before
\* answered, and fetches the card of exactly the endpoints whose probe
\* succeeded; a valid card is registered under its name, and a fetch that
\* fails or brings an invalid card changes nothing in the registry; in both
\* cases discoverAgents goes on with the next accessible endpoint and
\* returns after the last one.  No step takes an entry out of the registry.
C26_DiscoverySkipsFailures ==
  /\ [][\A c \in Chains, isAccessible \in BOOLEAN :
          AccessibilityAnswered(c, isAccessible)
            => LET chain == chains[c]
                   probed == agentUrls[chain.index]
                   accessible == IF isAccessible
                                 THEN chain.accessible \o <<probed>>
                                 ELSE chain.accessible
               IN /\ agents' = agents
                  /\ chain.index < Len(agentUrls)
                       => /\ chains'[c].pc = "checking"
                          /\ chains'[c].index = chain.index + 1
                          /\ chains'[c].accessible = accessible
                  /\ (chain.index = Len(agentUrls) /\ accessible # <<>>)
                       => /\ chains'[c].pc = "registering"
                          /\ chains'[c].index = 1
                          /\ chains'[c].accessible = accessible
                  /\ (chain.index = Len(agentUrls) /\ accessible = <<>>)
                       => chains'[c].pc = "discovered"]_vars
  /\ [][\A c \in Chains, answer \in AllAnswers :
          CardAnswered(c, answer)
            => LET chain == chains[c]
               IN /\ Unusable(answer) => agents' = agents
                  /\ ~Unusable(answer)
                       => /\ MapValue(agents', answer.name.s) = answer
                          /\ \A i \in 1..Len(agents) :
                               agents[i].key # answer.name.s
                                 => agents'[i] = agents[i]
                  /\ chain.index < Len(chain.accessible)
                       => /\ chains'[c].pc = "registering"
                          /\ chains'[c].index = chain.index + 1
                          /\ chains'[c].accessible = chain.accessible
                  /\ chain.index = Len(chain.accessible)
                       => chains'[c].pc = "discovered"]_vars
  /\ [][\A i \in 1..Len(agents) :
          /\ Len(agents') >= i
          /\ agents'[i].key = agents[i].key]_vars

\* discovery alone has registered the Vuex agent, and not the Vue Core agent
\* that is asked before it
C26_Witness ==
  /\ ret = NoCall
  /\ chains[1].pc = "discovered"
  /\ agents = <<[key |-> "Vuex A2A Agent", value |-> VuexCard]>>

\* C27: when the start-up timer of the orchestrator fires, the hard-coded
\* cards of the two specialists are registered if the registry is empty at
\* that moment; if it holds an agent, registered by discovery or otherwise,
\* the registry is left as it is.  The timer fires once.
C27_FallbackOnlyIfEmpty ==
  /\ [][FallbackTimerFires
          => IF Len(agents) = 0
             THEN agents' = <<[key |-> "Vue Core A2A Agent",
                               value |-> VueCoreCard],
                              [key |-> "Vuex A2A Agent", value |-> VuexCard]>>
             ELSE agents' = agents]_vars
  /\ [][fallback = "fired" => fallback' = "fired" /\ ~FallbackTimerFires]_vars

\* discovery had registered the Vuex agent alone when the timer fired: the
\* Vue Core agent was not added
C27_Witness ==
  /\ fallback = "fired"
  /\ ret = RegistryReturned("onModuleInit", Undefined)
  /\ chains[1].pc = "stopped"
  /\ agents = <<[key |-> "Vuex A2A Agent", value |-> VuexCard]>>

NoAgentsMessage ==
  TextMessage("agent", "No agents are currently available. I've initiated agent discovery. Please try again in a few seconds, or type \"list agents\" to see if any agents have been discovered.")

\* the text of the message of the request in slot r is a question: it is
\* not empty and holds neither of the two commands
IsQuestion(r) ==
  /\ TypedParts(reqs[r].request)
  /\ LET query == extractTextFromMessage(reqs[r].request.params.message).value
     IN /\ query # ""
        /\ ~includes(toLowerCase(query), "list agents")
        /\ ~includes(toLowerCase(query), "discover agents")

\* C28: when processMessage of the orchestrator finds the registry empty
\* and the query is no control command, it starts discoverAgentsWithRetry
\* and waits for it; from there it neither asks the LLM nor selects or
\* delegates to an agent, even if agents get registered meanwhile; it
\* returns the agent message that no agents are available, and the task of
\* the request is stored and answered as completed with that message.
C28_EmptyRegistryIsAnswered ==
  /\ [][\A r \in Slots :
          (ProcessMessage(r) /\ IsQuestion(r) /\ Len(agents) = 0)
            => /\ pm'[r].pc = "discovering"
               /\ chains[pm'[r].chain].pc = "none"
               /\ chains'[pm'[r].chain] = Chain("checking", 0, 1, <<>>, 1)
               /\ reqs' = reqs]_vars
  /\ [][\A r \in Slots :
          (pm[r].pc = "discovering" /\ pm'[r] # pm[r])
            => /\ pm'[r] = NotProcessing
               /\ reqs'[r].pc = "send_completed_read"
               /\ IsQuestion(r) => reqs'[r].outcome = NoAgentsMessage
               /\ tasks' = tasks
               /\ arrays' = arrays]_vars
  /\ [][\A r \in Slots :
          (SendCompletedWrite(r) /\ reqs[r].outcome = NoAgentsMessage)
            => /\ reply'.n # reply.n
               /\ DOMAIN reply'.response = {"jsonrpc", "id", "result"}
               /\ reply'.response.result.status.state = "completed"
               /\ reply'.response.result.status.message = NoAgentsMessage
               /\ tasks'[TaskIdOf(reqs[r])].task.status.state = "completed"
               /\ arrays' = arrays]_vars

\* the request was answered that no agents are available and its task is
\* completed, while the discovery it started has registered both agents
C28_Witness ==
  /\ AllIdle
  /\ reply.n # 0
  /\ reply.outcome = NoAgentsMessage
  /\ StateOf("t1") = "completed"
  /\ chains[1].pc = "stopped"
  /\ Len(agents) = 2
  /\ arrays[tasks["t1"].task.artifacts] = <<>>

\* the text of the first part of the message of the request in slot r
RequestText(r) ==
  LET part == reqs[r].request.params.message.parts.items[1]
  IN IF ~IsNullish(part) /\ "text" \in DOMAIN part THEN part.text ELSE ""

\* the texts that hold 'list agents' in some letter case, and those that
\* hold 'discover agents' and not 'list agents'
ListTexts == {"list agents", "Discover Agents and List Agents"}
DiscoverTexts == {"discover agents", "Please DISCOVER AGENTS now"}

RetryNotice ==
  TextMessage("agent", "Agent discovery initiated. Please try your query again in a few seconds.")

EmptyDirectory ==
  TextMessage("agent", "No agents are currently available. Try typing \"discover agents\" to initiate agent discovery.")

\* the message lists the agents of the registry
IsDirectoryOf(message, registry) ==
  IF Len(registry) = 0 THEN message = EmptyDirectory
  ELSE /\ IsAgentText(message)
       /\ IsPrefix("Available agents:\n\n", message.parts[1].text)
       /\ \A i \in 1..Len(registry) :
            includes(message.parts[1].text, registry[i].key \o "\n")

\* every skill of every registered card is an object
SkillsAreObjects(registry) ==
  \A i \in 1..Len(registry) :
    \A k \in 1..Len(registry[i].value.skills.items) :
      ~IsNullish(registry[i].value.skills.items[k])

ArtifactsOf(t) == arrays[tasks[t].task.artifacts]

\* the agent_selection artifact that names the agent of a card
SelectionOf(card) ==
  [name |-> "agent_selection",
   parts |-> <<[type |-> "text",
                text |-> "Selected agent: " \o card.name.s
                           \o " (No description)"]>>]

\* C30: while sendTask of the orchestrator is under way for the request of
\* task T, the artifacts of T hold an agent_selection artifact that names
\* the agent the task is sent to; the artifacts of a task are only ever
\* appended to, so the artifact stays when the delegation fails; and
\* artifacts are added one at a time, by a processMessage call that has
\* selected an agent and then goes on to delegate, once per call.
C30_SelectionIsRecordedFirst ==
  /\ [](\A r \in Slots :
          pm[r].pc = "delegating"
            => /\ tasks[TaskIdOf(reqs[r])] # Undefined
               /\ \E i \in 1..Len(ArtifactsOf(TaskIdOf(reqs[r]))) :
                    ArtifactsOf(TaskIdOf(reqs[r]))[i]
                      = SelectionOf(pm[r].target))
  /\ [][\A t \in TaskIds :
          tasks[t] # Undefined
            => /\ tasks'[t] # Undefined
               /\ tasks'[t].task.artifacts = tasks[t].task.artifacts
               /\ IsPrefix(ArtifactsOf(t), ArtifactsOf(t)')]_vars
  /\ [][\A r \in Slots, failure \in DelegateFailures :
          DelegateAnswered(r, failure) => arrays' = arrays]_vars
  /\ [][arrays' # arrays
          => \E r \in Slots :
               /\ pm[r].pc = "artifact"
               /\ pm'[r].pc = "delegating"
               /\ arrays' = [arrays EXCEPT
                    ![tasks[TaskIdOf(reqs[r])].task.artifacts] =
                      Append(@, SelectionOf(pm[r].target))]]_vars
  /\ [][\A r \in Slots :
          /\ pm[r].pc = "delegating" => pm'[r].pc \in {"delegating", "none"}
          /\ (pm'[r].pc = "artifact" /\ pm[r].pc # "artifact")
               => pm[r].pc \in {"none", "selecting"}]_vars

\* the delegation to B failed and the task of the request still holds the
\* artifact that names B
C30_Witness ==
  /\ AllIdle
  /\ reply.n # 0
  /\ reply.outcome =
       ReportOf("B", [error |-> [code |-> Num(InternalError),
                                 message |-> Str("boom")]])
  /\ ArtifactsOf("t1")
       = <<Artifact("agent_selection", "Selected agent: B (No description)")>>

\* the message createDelegatedResponse reads: the status message, else the
\* last message of the history, else none
AnswerOf(task) ==
  IF ~IsNullish(Prop(task.status, "message")) THEN task.status.message
  ELSE IF "history" \in DOMAIN task /\ Len(task.history) > 0
       THEN task.history[Len(task.history)]
       ELSE Null

\* the task of the delegate carries no text content
NoTextContent(task) ==
  \/ AnswerOf(task) = Null
  \/ \A i \in 1..Len(AnswerOf(task).parts) :
       AnswerOf(task).parts[i].type = "text"
         => AnswerOf(task).parts[i].text = ""

StartsWithError(message) ==
  /\ Len(message.parts[1].text) >= 6
  /\ SubSeq(message.parts[1].text, 1, 6) = "Error:"

\* C31: if the delegate's returned task carries no text content (no status
\* message and empty history, a message with no text parts, or text parts
\* whose text is empty), the orchestrator returns a message starting with
\* 'Error:' and never a '<AgentName> responds:' message with an empty body.
C31_NoEmptySuccess ==
  [][\A r \in Slots, response \in DelegateResponses :
       (/\ DelegateAnswered(r, response)
        /\ "result" \in DOMAIN response
        /\ NoTextContent(response.result))
         => StartsWithError(reqs'[r].outcome)]_vars

(***************************************************************************)
(* Properties of the client.                                               *)
(***************************************************************************)
\* the response sendJsonRpcRequest resolved with carries a JSON-RPC error
\* and no result
CarriesError(response) ==
  /\ ~IsNullish(response)
  /\ "error" \in DOMAIN response
  /\ "result" \notin DOMAIN response
  /\ DOMAIN response.error = {"code", "message"}

RaisedWith(outcome, text) == outcome = Throw(Error(text))

\* C32 as stated: for each of sendTask, getTask and cancelTask, whenever the
\* remote response carries a JSON-RPC error (any code, including TaskNotFound
\* 404), the call raises a local error carrying the remote message and code
\* and returns no normal value.
C32_RemoteErrorIsRaisedWithCode ==
  (/\ ret # NoCall
   /\ ret.op \in {"sendTask", "getTask", "cancelTask"}
   /\ CarriesError(ret.response))
    => RaisedWith(ret.outcome,
                  "Agent B returned error: " \o ret.response.error.message.s
                    \o " (code: " \o NumberText(ret.response.error.code.n)
                    \o ")")

\* C32 as the code has it: when the response carries a JSON-RPC error and no
\* result, sendTask raises a local error carrying the remote message and
\* code; cancelTask raises a local error carrying the remote message alone;
\* getTask returns null when the code is 404 (TaskNotFound) and raises a
\* local error carrying the remote message alone for every other code.
C32_RemoteErrorIsRaised ==
  (/\ ret # NoCall
   /\ ret.op \in {"sendTask", "getTask", "cancelTask"}
   /\ CarriesError(ret.response))
    => IF ret.op = "sendTask"
       THEN RaisedWith(ret.outcome,
                       "Agent B returned error: "
                         \o ret.response.error.message.s \o " (code: "
                         \o NumberText(ret.response.error.code.n) \o ")")
       ELSE IF ret.op = "getTask" /\ ret.response.error.code.n = 404
       THEN ret.outcome = Return(Null)
       ELSE RaisedWith(ret.outcome,
                       "Agent B returned error: "
                         \o ret.response.error.message.s)

\* getTask was answered with the error TaskNotFound and returned null, after
\* a sendTask
C32_Witness ==
  /\ ret # NoCall
  /\ ret.op = "getTask"
  /\ ret.answer = Http(200, ErrorBody(TaskNotFound, "Task not found"))
  /\ ret.outcome = Return(Null)
  /\ Len(client.posted) = 2
  /\ client.posted[1].request.method = "tasks/send"

\* the response is the one built locally for a failure of the request
IsInternalErrorOf(response, request) ==
  /\ DOMAIN response = {"jsonrpc", "id", "error"}
  /\ response.id = request.id
  /\ DOMAIN response.error = {"code", "message"}
  /\ response.error.code = Num(InternalError)

\* C33: sendJsonRpcRequest never raises: on a transport failure (connection
\* refused, timeout, no response, or an HTTP error whose body is not a
\* JSON-RPC error) it returns a response with the request's id, no result
\* and error code -32603; on an HTTP error whose body carries a JSON-RPC
\* error it returns that body unchanged; consequently sendTask raises in
\* every one of these cases and never returns a task.
C33_FailuresHaveOneShape ==
  (/\ ret # NoCall
   /\ ret.op \in {"sendTask", "getTask", "cancelTask"})
    => /\ ret.answer \in TransportFailures \cup OtherHttpErrors
            => IsInternalErrorOf(ret.response, ret.request)
       /\ ret.answer \in RemoteErrors => ret.response = ret.answer.data
       /\ (/\ ret.op = "sendTask"
           /\ ret.answer \in TransportFailures \cup OtherHttpErrors
                               \cup RemoteErrors)
            => Threw(ret.outcome)

\* C34: isAgentAccessible never raises: it returns true exactly when
\* getAgentCard for that URL succeeded (the server answered with HTTP 200 and
\* a card) and false for every failure (other status, connection refused,
\* timeout, no response).
C34_AccessibleIffCardFetched ==
  (ret # NoCall /\ ret.op = "isAgentAccessible")
    => /\ ret.outcome \in {Return(TRUE), Return(FALSE)}
       /\ ret.outcome = Return(TRUE)
            <=> /\ ret.answer.kind = "http"
                /\ ret.answer.status = 200
                /\ ~IsNullish(ret.answer.data)
       /\ ret.answer \in TransportFailures => ret.outcome = Return(FALSE)
       /\ (ret.answer.kind = "http" /\ ret.answer.status # 200)
            => ret.outcome = Return(FALSE)

\* the server answered 201 with a card and the agent was found inaccessible
C34_Witness ==
  /\ ret # NoCall
  /\ ret.op = "isAgentAccessible"
  /\ ret.answer = Http(201, VuexCard)
  /\ ret.outcome = Return(FALSE)

(***************************************************************************)
(* The orchestrator delegating the questions of several requests, which    *)
(* may be in progress together, to the agents registered at start-up.      *)
(***************************************************************************)
DelegationRequests ==
  {Request(Str("2.0"), RequestId, Str("tasks/send"),
           SendParams(Str(t), MessageBody("user", "anything"))) :
     t \in TaskIds}

DelegationCompletions == {Completion("Vuex A2A Agent"), CompletionFails}

DelegationResponses ==
  {[result |-> RemoteTask(TextMessage("agent", "answer"))],
   [error |-> [code |-> Num(InternalError), message |-> Str("boom")]]}

\* a step of the tasks/send request of slot r
DelegationStep(r) ==
  \/ SendWorkingRead(r)
  \/ SendWorkingWrite(r)
  \/ ProcessMessage(r)
  \/ \E completion \in DelegationCompletions : SelectionAnswered(r, completion)
  \/ ArtifactWrite(r)
  \/ \E response \in DelegationResponses : DelegateAnswered(r, response)
  \/ SendCompletedWrite(r)

NextDelegation ==
  \/ manuallyRegisterAgents /\ Len(agents) = 0
  \/ \E r \in Slots, request \in DelegationRequests :
       Len(agents) > 0 /\ processJsonRpcRequest(r, request)
  \/ \E r \in Slots : DelegationStep(r)

SpecDelegation == Init /\ [][NextDelegation]_vars

\* the ids of the requests posted before the i-th
EarlierIds(i) ==
  UNION {{client.posted[j].request.id, client.posted[j].request.params.id} :
           j \in 1..(i - 1)}

\* C35: every delegation creates a new task: each sendTask call uses a
\* freshly generated task id that differs from the orchestrator's own task
\* id and from the ids of all earlier delegations, and a JSON-RPC request id
\* that differs from that task id; so the orchestrator's task and the
\* delegate's task are always two distinct store entries, and the
\* orchestrator issues exactly one sendTask per routed request (no retry).
C35_DelegationCreatesANewTask ==
  /\ [](\A i \in 1..Len(client.posted) :
          LET request == client.posted[i].request
          IN /\ request.method = "tasks/send"
             /\ request.id # request.params.id
             /\ request.params.id \notin TaskIds
             /\ request.params.id \notin EarlierIds(i)
             /\ request.id \notin EarlierIds(i))
  /\ [][\A r \in Slots :
          ArtifactWrite(r)
            => /\ Len(client'.posted) = Len(client.posted) + 1
               /\ client'.posted[Len(client'.posted)].url = pm[r].target.url.s
               /\ client'.posted[Len(client'.posted)].request.params.id
                    # TaskIdOf(reqs[r])
               /\ client'.posted[Len(client'.posted)].request.params.message
                    = PlainMessage(reqs[r].request.params.message)]_vars
  /\ [][(\A r \in Slots : ~ArtifactWrite(r)) => client' = client]_vars
  /\ [][\A r \in Slots, response \in DelegationResponses :
          DelegateAnswered(r, response)
            => client' = client /\ pm'[r] = NotProcessing]_vars
  /\ [](Len(client.posted) <= sent)

\* two requests on the task t1 were delegated, one after the other or both
\* together, and both are answered, the last with the failure of its
\* delegation
C35_Witness ==
  /\ AllIdle
  /\ sent = 2
  /\ Len(client.posted) = 2
  /\ tasks["t1"] # Undefined /\ StateOf("t1") = "completed"
  /\ Len(ArtifactsOf("t1")) = 2
  /\ reply.outcome
       = ReportOf("Vuex A2A Agent", [error |-> [code |-> Num(InternalError),
                                                message |-> Str("boom")]])

(***************************************************************************)
(* More properties of the task store.                                      *)
(***************************************************************************)
\* the ids the store holds an entry for
StoredIds == {t \in TaskIds : tasks[t] # Undefined}

UpdatesStatus(t) ==
  \E st \in StoreStates, m \in {Q1, Q2, Undefined} :
    CallUpdateTaskStatus(t, st, m)

AddsArtifact(t) == \E a \in Artifacts : CallAddTaskArtifact(t, a)

Creates(t) == \E c \in CreateInputs : CallCreateOrGetTask(t, c[1], c[2], c[3])

\* C36: updateTaskStatus and addTaskArtifact on an id absent from the store
\* return null and leave the store unchanged (no task is created);
\* deleteTask on an absent id returns false and changes nothing;
\* listTaskIds is always exactly the set of ids created and not yet
\* deleted: empty at the start, one id more after a createOrGetTask, one
\* id less after a deleteTask, and the same after every other call.
C36_UnknownIdsFailSoftly ==
  /\ [][\A t \in StoreTaskIds :
          ((UpdatesStatus(t) \/ AddsArtifact(t)) /\ tasks[t] = Undefined)
            => /\ ret'.result = Null
               /\ tasks' = tasks
               /\ arrays' = arrays]_vars
  /\ [][\A t \in StoreTaskIds :
          (CallDeleteTask(t) /\ tasks[t] = Undefined)
            => /\ ret'.result = [bool |-> FALSE]
               /\ tasks' = tasks
               /\ arrays' = arrays]_vars
  /\ [][\A t \in StoreTaskIds :
          /\ Creates(t) => StoredIds' = StoredIds \cup {t}
          /\ (CallDeleteTask(t) /\ tasks[t] # Undefined)
               => ret'.result = [bool |-> TRUE] /\ StoredIds' = StoredIds \ {t}
          /\ (UpdatesStatus(t) \/ AddsArtifact(t) \/ CallGetTask(t))
               => StoredIds' = StoredIds]_vars
  /\ [][CallListTaskIds
          => ret'.result = [ids |-> StoredIds] /\ StoredIds' = StoredIds]_vars
  /\ [](ret = NoCall => StoredIds = {})

\* the task was created, deleted and created again, then deleted, and an
\* updateTaskStatus on its id has returned null
C36_Witness ==
  /\ ret.op = "updateTaskStatus"
  /\ ret.result = Null
  /\ tasks["t1"] = Undefined
  /\ nextRef = 3

(***************************************************************************)
(* Task objects held across the writes of other requests.  A request holds *)
(* in taskData the object createOrGetTask, getTask or updateTaskStatus     *)
(* returned to it last.                                                    *)
(***************************************************************************)
\* the write of an updateTaskStatus call made for the request of slot r
StatusWrite(r) ==
  \/ SendWorkingWrite(r)
  \/ SendCompletedWrite(r)
  \/ SendFailedWrite(r)
  \/ CancelWrite(r)

\* slot h holds a task object of the task that the request of slot r is on
HoldsTaskOf(h, r) ==
  /\ h # r
  /\ reqs[h].pc # "idle"
  /\ reqs[r].pc # "idle"
  /\ reqs[h].taskData # Null
  /\ TaskIdOf(reqs[h]) = TaskIdOf(reqs[r])

\* C37: copy-on-write for status updates: a Task object (and its history
\* sequence) previously returned by createOrGetTask, getTask or
\* updateTaskStatus keeps its state, timestamp, status message and history
\* contents after any later updateTaskStatus on the same id; only the
\* store's current entry reflects the update.
C37_StatusUpdateCopies ==
  [][\A r \in Slots, h \in Slots :
       (StatusWrite(r) /\ HoldsTaskOf(h, r) /\ reqs[r].taskData # Null)
         => /\ reqs'[h].pc = reqs[h].pc
            /\ reqs'[h].taskData.task.status = reqs[h].taskData.task.status
            /\ reqs'[h].taskData.task.history = reqs[h].taskData.task.history
            /\ reqs'[h].taskData.history = reqs[h].taskData.history
            /\ tasks'[TaskIdOf(reqs[r])].task.status.timestamp = now
            /\ tasks'[TaskIdOf(reqs[r])].task.status.state
                 \in {"working", "completed", "failed", "canceled"}]_vars

\* a request holds the task as it was submitted, with the one message of its
\* creation, while the store has it completed with three messages
C37_Witness ==
  \E h \in Slots :
    /\ reqs[h].pc = "send_working_read"
    /\ reqs[h].taskData # Null
    /\ reqs[h].taskData.task.status.state = "submitted"
    /\ Len(reqs[h].taskData.history) = 1
    /\ StateOf(TaskIdOf(reqs[h])) = "completed"
    /\ Len(tasks[TaskIdOf(reqs[h])].history) = 3
    /\ tasks[TaskIdOf(reqs[h])].task.status.timestamp = 1
    /\ reqs[h].taskData.task.status.timestamp = 0

\* the last call on the store returned the entry now stored under t
ReturnedEntryOf(t) ==
  /\ ret # NoCall
  /\ ret.op \in {"createOrGetTask", "getTask", "updateTaskStatus"}
  /\ ret.taskId = t
  /\ ret.result = tasks[t]

\* C38: addTaskArtifact does not mutate earlier snapshots: a Task object
\* returned by the store before an addTaskArtifact call has the same
\* artifacts sequence after the call; the artifact appears only in the newly
\* stored task, appended after the existing artifacts, and the task's status
\* and history are unchanged by the call.
C38_ArtifactUpdateCopies ==
  [][\A t \in StoreTaskIds, a \in Artifacts :
       (/\ CallAddTaskArtifact(t, a)
        /\ tasks[t] # Undefined
        /\ ReturnedEntryOf(t))
         => /\ arrays'[ret.result.task.artifacts]
                 = arrays[ret.result.task.artifacts]
            /\ arrays'[tasks'[t].task.artifacts]
                 = Append(arrays[tasks[t].task.artifacts], a)
            /\ tasks'[t].task.status = tasks[t].task.status
            /\ tasks'[t].task.history = tasks[t].task.history
            /\ tasks'[t].history = tasks[t].history]_vars

\* the elements of a sequence
Elements(s) == {s[i] : i \in 1..Len(s)}

\* C39 as stated: history stays append-only under interleaving: for any
\* interleaving of concurrent requests on the same task id (two tasks/send,
\* or a tasks/send with a tasks/cancel), where each updateTaskStatus reads
\* the stored task and writes it back after an await, the stored history
\* length never decreases between two successive store states and every
\* message appended by a completed updateTaskStatus call is still in the
\* history afterwards.
C39_HistoryAppendOnlyUnderInterleaving ==
  [][\A t \in TaskIds :
       (tasks[t] # Undefined /\ tasks'[t] # Undefined)
         => /\ Len(tasks'[t].history) >= Len(tasks[t].history)
            /\ Elements(tasks[t].history) \subseteq Elements(tasks'[t].history)
     ]_vars

\* C39 as the code has it: under interleaving the last write wins: every
\* write of updateTaskStatus stores the history its call read before the
\* await, followed by the call's message when it has one; the stored history
\* is extended by every write whose call read the entry that is still
\* stored, and a write whose read is older replaces what was appended in
\* between.
C39_LastWriteWins ==
  [][\A r \in Slots :
       (StatusWrite(r) /\ reqs[r].taskData # Null)
         => /\ IsPrefix(reqs[r].taskData.history,
                        tasks'[TaskIdOf(reqs[r])].history)
            /\ Len(tasks'[TaskIdOf(reqs[r])].history)
                 <= Len(reqs[r].taskData.history) + 1
            /\ reqs[r].taskData = tasks[TaskIdOf(reqs[r])]
                 => IsPrefix(tasks[TaskIdOf(reqs[r])].history,
                             tasks'[TaskIdOf(reqs[r])].history)]_vars

\* a tasks/send was answered with the completed task and its three messages;
\* the write of a second tasks/send on the id, whose read was older, has
\* left the store with two messages and the state working
C39_Witness ==
  /\ reply.n # 0
  /\ reply.handler = "handleTaskSend"
  /\ "result" \in DOMAIN reply.response
  /\ reply.response.result.status.state = "completed"
  /\ Len(reply.response.result.history) = 3
  /\ tasks[reply.response.result.id] # Undefined
  /\ StateOf(reply.response.result.id) = "working"
  /\ Len(tasks[reply.response.result.id].history) = 2

\* C40: in every reachable store state, for every stored entry, the entry's
\* separate history sequence and its task.history sequence have the same
\* contents, after any sequence of createOrGetTask, updateTaskStatus (with
\* or without message) and addTaskArtifact.
C40_HistoriesAgree ==
  \A t \in TaskIds :
    tasks[t] # Undefined => tasks[t].history = tasks[t].task.history

\* a task with two messages in both histories, a status set without a
\* message after the second, and an artifact
C40_Witness ==
  /\ tasks["t1"] # Undefined
  /\ tasks["t1"].history = <<Q1, Q2>>
  /\ tasks["t1"].task.history = <<Q1, Q2>>
  /\ tasks["t1"].task.status.state = "canceled"
  /\ tasks["t1"].task.status.message = Q2
  /\ Len(ArtifactsOf("t1")) = 1
  /\ ret.op = "updateTaskStatus"
  /\ now = 1

====
